---- MODULE Spec2Model ----
(***************************************************************************)
(* Model of the chess analytics pipeline: the Chess.com and Lichess record *)
(* parsers (lib/normalize.ts), the two fetch routes that apply them, and   *)
(* the statistics aggregator (lib/stats.ts).                               *)
(*                                                                         *)
(* Representation.                                                         *)
(*  - Strings on which the code does string operations (user names,       *)
(*    opening names) are sequences of one-character strings.              *)
(*    Enumerated tokens that the code only compares (result, color,       *)
(*    winner, status, outcome strings) are plain strings.                 *)
(*  - null / undefined objects are the record Null; an absent string is   *)
(*    the sequence Undefined.                                             *)
(*  - Percentages with one decimal place (winRate, avgGameLength) are     *)
(*    held as the integer number of tenths: 66.7 is 667.                  *)
(***************************************************************************)
EXTENDS Integers, Sequences, FiniteSets, TLC

VARIABLES
    games,      \* the NormalizedGame[] handed to computeStats
    stats,      \* the GameStats it returned, NotCalled before the call
    raw,        \* the raw platform record handed to a parser
    username,   \* the viewer's username handed to a parser
    normalized, \* what the parser returned, NotCalled before the call
    api,        \* what api.chess.com and lichess.org serve
    inputs,     \* the two username fields of the home page
    fetch,      \* the requests of the running handleFetch and their responses
    home,       \* the home page's loading, error, fetchCounts and ratings
    basis,      \* the earlier win rate a caller of computeStats holds, if any
    limiter,    \* the insights route: its clock, rateLimitStore and answers
    learn,      \* the state of PiecePlacementGame
    session     \* the home page under overlapping handleFetch invocations

vars == <<games, stats, raw, username, normalized, api, inputs, fetch, home,
          basis, limiter, learn, session>>

Null == [null |-> TRUE]
NotCalled == [called |-> FALSE]

\* A thrown exception, as the outcome of a call
Raised == [raised |-> TRUE]

\* undefined, for a field that holds a string
Undefined == <<"<undefined>">>

\* undefined, for a field that holds one of a few tokens
Absent == "<absent>"

\* null or undefined, for a parameter that holds an array
NullGames == <<Null>>

Unknown == <<"U", "n", "k", "n", "o", "w", "n">>

(***************************************************************************)
(* String primitives                                                       *)
(***************************************************************************)

UpperLetters ==
    <<"A", "B", "C", "D", "E", "F", "G", "H", "I", "J", "K", "L", "M",
      "N", "O", "P", "Q", "R", "S", "T", "U", "V", "W", "X", "Y", "Z">>
LowerLetters ==
    <<"a", "b", "c", "d", "e", "f", "g", "h", "i", "j", "k", "l", "m",
      "n", "o", "p", "q", "r", "s", "t", "u", "v", "w", "x", "y", "z">>

LowerChar(c) ==
    IF \E k \in DOMAIN UpperLetters : UpperLetters[k] = c
    THEN LowerLetters[CHOOSE k \in DOMAIN UpperLetters : UpperLetters[k] = c]
    ELSE c

\* String.prototype.toLowerCase
toLowerCase(str) == [i \in DOMAIN str |-> LowerChar(str[i])]

Whitespace == {" ", "\n", "\t", "\r"}

\* String.prototype.trim
trim(str) ==
    LET solid == {i \in DOMAIN str : str[i] \notin Whitespace}
    IN  IF solid = {} THEN <<>>
        ELSE SubSeq(str, CHOOSE i \in solid : \A j \in solid : i <= j,
                         CHOOSE i \in solid : \A j \in solid : i >= j)

\* str.split(/\s+/).length: one more than the number of maximal runs of
\* whitespace ("".split(/\s+/) is [""], of length 1)
splitWhitespaceLength(str) ==
    1 + Cardinality({i \in DOMAIN str :
                        /\ str[i] \in Whitespace
                        /\ (i = 1 \/ str[i - 1] \notin Whitespace)})

Digits == <<"0", "1", "2", "3", "4", "5", "6", "7", "8", "9">>

IsDigit(c) == \E k \in DOMAIN Digits : Digits[k] = c

DigitValue(c) == (CHOOSE k \in DOMAIN Digits : Digits[k] = c) - 1

\* parseInt(str, 10) of a string of digits
parseInt(str) ==
    LET value[i \in 0..Len(str)] ==
            IF i = 0 THEN 0 ELSE 10 * value[i - 1] + DigitValue(str[i])
    IN  value[Len(str)]

\* Whether pattern occurs in str at position i
OccursAt(str, i, pattern) ==
    /\ i >= 1
    /\ i + Len(pattern) - 1 <= Len(str)
    /\ SubSeq(str, i, i + Len(pattern) - 1) = pattern

\* The least position >= from where pattern occurs in str, 0 if none
IndexOfFrom(str, pattern, from) ==
    LET hits == {i \in from..Len(str) : OccursAt(str, i, pattern)}
    IN  IF hits = {} THEN 0 ELSE CHOOSE i \in hits : \A j \in hits : i <= j

\* The least position >= from holding a character of chars, 0 if none
IndexOfAnyFrom(str, chars, from) ==
    LET hits == {i \in from..Len(str) : i >= 1 /\ str[i] \in chars}
    IN  IF hits = {} THEN 0 ELSE CHOOSE i \in hits : \A j \in hits : i <= j

\* The least position >= from holding no whitespace, Len(str) + 1 if none
SkipWhitespace(str, from) ==
    LET solid == {i \in from..Len(str) : i >= 1 /\ str[i] \notin Whitespace}
    IN  IF solid = {} THEN Len(str) + 1
        ELSE CHOOSE i \in solid : \A j \in solid : i <= j

\* Math.ceil(n / 2) for n >= 0
CeilHalf(n) == (n + 1) \div 2

(***************************************************************************)
(* lib/stats.ts                                                            *)
(***************************************************************************)

\* A rounding that drops the fraction
RoundDiv_Floor(num, den) == num \div den

\* Math.round(x) for x = num/den >= 0: floor(x + 1/2)
RoundDiv(num, den) == (2 * num + den) \div (2 * den)

\* A winRate that leaves out the final division by 10
winRate_NoScale(wins, total) ==
    IF total = 0 THEN 0 ELSE RoundDiv(wins * 1000, total) * 10

\* winRate(wins, total), in tenths of a percent. Math.round((wins/total)*1000)
\* is the integer nearest to 1000*wins/total, halves up; the double
\* arithmetic of the code gives the same integer for every total below 400
\* (201 of 400 is the first pair for which the product falls short of a
\* half), and the lists here are shorter.
winRate(wins, total) ==
    IF total = 0 THEN 0 ELSE RoundDiv(wins * 1000, total)

\* games.filter((g) => g.result === r).length
CountResult(gs, r) == Len(SelectSeq(gs, LAMBDA g : g.result = r))

\* games.filter((g) => g.color === c)
FilterColor(gs, c) == SelectSeq(gs, LAMBDA g : g.color = c)

\* games.reduce((sum, g) => sum + g.moves, 0)
RECURSIVE SumMoves(_)
SumMoves(s) ==
    IF s = <<>> THEN 0 ELSE Head(s).moves + SumMoves(Tail(s))

\* map.get(name): the position of the entry keyed name, 0 when there is none.
\* The Map is held as the sequence of its values in insertion order.
MapIndex(map, name) ==
    IF \E i \in DOMAIN map : map[i].name = name
    THEN CHOOSE i \in DOMAIN map : map[i].name = name
    ELSE 0

\* A key that is the opening as it stands
openingKey_NoDefault(game) == game.opening

\* game.opening || "Unknown": the empty string and a missing opening are
\* falsy
openingKey(game) ==
    IF game.opening = <<>> \/ game.opening = Undefined THEN Unknown ELSE game.opening

\* A first loop that counts a drawn game in total but in no result column
CountGame_DrawsDropped(map, game) ==
    LET name == openingKey(game)
        i    == MapIndex(map, name)
        m1   == IF i = 0
                THEN Append(map, [name |-> name, total |-> 0, wins |-> 0,
                                  losses |-> 0, draws |-> 0, winRate |-> 0])
                ELSE map
        j    == IF i = 0 THEN Len(m1) ELSE i
        e    == m1[j]
    IN  [m1 EXCEPT ![j] =
            [e EXCEPT !.total  = @ + 1,
                      !.wins   = IF game.result = "Win" THEN @ + 1 ELSE @,
                      !.losses = IF game.result = "Loss" THEN @ + 1 ELSE @]]

\* One iteration of the first loop of buildOpeningMap
CountGame(map, game) ==
    LET name == openingKey(game)
        i    == MapIndex(map, name)
        m1   == IF i = 0
                THEN Append(map, [name |-> name, total |-> 0, wins |-> 0,
                                  losses |-> 0, draws |-> 0, winRate |-> 0])
                ELSE map
        j    == IF i = 0 THEN Len(m1) ELSE i
        e    == m1[j]
    IN  [m1 EXCEPT ![j] =
            [e EXCEPT !.total  = @ + 1,
                      !.wins   = IF game.result = "Win" THEN @ + 1 ELSE @,
                      !.losses = IF game.result = "Win" THEN @
                                 ELSE IF game.result = "Loss" THEN @ + 1 ELSE @,
                      !.draws  = IF game.result = "Win" \/ game.result = "Loss"
                                 THEN @ ELSE @ + 1]]

RECURSIVE CountGames(_, _)
CountGames(map, gs) ==
    IF gs = <<>> THEN map
    ELSE CountGames(CountGame(map, Head(gs)), Tail(gs))

buildOpeningMap(gs) ==
    LET counted == CountGames(<<>>, gs)
    IN  [i \in DOMAIN counted |->
            [counted[i] EXCEPT !.winRate = winRate(counted[i].wins, counted[i].total)]]

MIN_GAMES_FOR_BEST_WORST == 2

\* The comparators handed to sort
ByTotalDesc(a, b) == b.total - a.total
ByWinRateDesc(a, b) == b.winRate - a.winRate
ByWinRateAsc(a, b) == a.winRate - b.winRate
ByDateDesc(a, b) == b.date - a.date

compare(order, a, b) ==
    CASE order = "totalDesc"   -> ByTotalDesc(a, b)
      [] order = "winRateDesc" -> ByWinRateDesc(a, b)
      [] order = "winRateAsc"  -> ByWinRateAsc(a, b)
      [] order = "dateDesc"    -> ByDateDesc(a, b)

\* Array.prototype.sort is stable: x goes before the first element it
\* compares strictly less than, and after every element it ties with.
InsertSorted(sorted, x, order) ==
    LET before == {k \in DOMAIN sorted : compare(order, x, sorted[k]) < 0}
        at     == IF before = {} THEN Len(sorted) + 1
                  ELSE CHOOSE k \in before : \A m \in before : k <= m
    IN  SubSeq(sorted, 1, at - 1) \o <<x>> \o SubSeq(sorted, at, Len(sorted))

\* [...array].sort(comparator)
SortBy(s, order) ==
    LET sortedPrefix[i \in 0..Len(s)] ==
            IF i = 0 THEN <<>> ELSE InsertSorted(sortedPrefix[i - 1], s[i], order)
    IN  sortedPrefix[Len(s)]

\* array.slice(0, n)
Slice(s, n) == SubSeq(s, 1, IF Len(s) < n THEN Len(s) ELSE n)

\* A best-opening step without the tie-break on total
BetterOf_NoTieBreak(best, o) ==
    IF o.winRate > best.winRate THEN o ELSE best

BetterOf(best, o) ==
    IF o.winRate > best.winRate \/ (o.winRate = best.winRate /\ o.total > best.total)
    THEN o ELSE best

\* A worst-opening step whose tie-break prefers the smaller sample
WorseOf_SmallerTotal(worst, o) ==
    IF o.winRate < worst.winRate \/ (o.winRate = worst.winRate /\ o.total < worst.total)
    THEN o ELSE worst

WorseOf(worst, o) ==
    IF o.winRate < worst.winRate \/ (o.winRate = worst.winRate /\ o.total > worst.total)
    THEN o ELSE worst

\* A most-played list cut from the table as it stands
mostPlayed_NoSort(allOpenings) == Slice(allOpenings, 5)

mostPlayed(allOpenings) == Slice(SortBy(allOpenings, "totalDesc"), 5)

qualified(allOpenings) ==
    SelectSeq(allOpenings, LAMBDA o : o.total >= MIN_GAMES_FOR_BEST_WORST)

\* qualifiedOpenings.reduce((best, o) => ...): no initial value, so the
\* accumulator starts as the first element
reduceBest(q) ==
    LET acc[i \in 1..Len(q)] == IF i = 1 THEN q[1] ELSE BetterOf(acc[i - 1], q[i])
    IN  acc[Len(q)]

\* qualifiedOpenings.reduce((worst, o) => ...)
reduceWorst(q) ==
    LET acc[i \in 1..Len(q)] == IF i = 1 THEN q[1] ELSE WorseOf(acc[i - 1], q[i])
    IN  acc[Len(q)]

\* A best opening that is left absent when no opening qualifies
bestOf_NoFallback(allOpenings) ==
    IF Len(qualified(allOpenings)) > 0 THEN reduceBest(qualified(allOpenings))
    ELSE Null

bestOf(allOpenings) ==
    LET q == qualified(allOpenings)
    IN  IF Len(q) > 0 THEN reduceBest(q)
        ELSE IF Len(allOpenings) > 0 THEN SortBy(allOpenings, "winRateDesc")[1]
        ELSE Null

\* A worst opening taken among all openings, qualified or not
worstOf_AmongAll(allOpenings) ==
    IF Len(allOpenings) > 0 THEN SortBy(allOpenings, "winRateAsc")[1] ELSE Null

worstOf(allOpenings) ==
    LET q == qualified(allOpenings)
    IN  IF Len(q) > 0 THEN reduceWorst(q)
        ELSE IF Len(allOpenings) > 0 THEN SortBy(allOpenings, "winRateAsc")[1]
        ELSE Null

\* computeStats(games). Reading games.length of null or undefined throws a
\* TypeError.
computeStats(gs) ==
    IF gs = NullGames THEN Raised ELSE
    LET totalGames  == Len(gs)
        wins        == CountResult(gs, "Win")
        losses      == CountResult(gs, "Loss")
        draws       == CountResult(gs, "Draw")
        whiteGames  == FilterColor(gs, "White")
        blackGames  == FilterColor(gs, "Black")
        whiteWins   == CountResult(whiteGames, "Win")
        blackWins   == CountResult(blackGames, "Win")
        totalMoves  == SumMoves(gs)
        avgGameLength ==
            IF totalGames > 0 THEN RoundDiv(totalMoves * 10, totalGames) ELSE 0
        allOpenings == buildOpeningMap(gs)
    IN  [totalGames         |-> totalGames,
         overallWinRate     |-> winRate(wins, totalGames),
         winRateWhite       |-> winRate(whiteWins, Len(whiteGames)),
         winRateBlack       |-> winRate(blackWins, Len(blackGames)),
         wins               |-> wins,
         losses             |-> losses,
         draws              |-> draws,
         whiteGames         |-> Len(whiteGames),
         whiteWins          |-> whiteWins,
         blackGames         |-> Len(blackGames),
         blackWins          |-> blackWins,
         avgGameLength      |-> avgGameLength,
         mostPlayedOpenings |-> mostPlayed(allOpenings),
         bestOpening        |-> bestOf(allOpenings),
         worstOpening       |-> worstOf(allOpenings)]

(***************************************************************************)
(* lib/normalize.ts: Chess.com                                             *)
(***************************************************************************)

CHESSCOM_DRAW_RESULTS ==
    {"stalemate", "insufficient", "agreed", "repetition", "50move",
     "timevsinsufficient"}

\* A result mapping whose draw set lacks "50move"
parseChessComResult_NoFiftyMove(playerResult) ==
    IF playerResult = "win" THEN "Win"
    ELSE IF playerResult \in CHESSCOM_DRAW_RESULTS \ {"50move"} THEN "Draw"
    ELSE "Loss"

parseChessComResult(playerResult) ==
    IF playerResult = "win" THEN "Win"
    ELSE IF playerResult \in CHESSCOM_DRAW_RESULTS THEN "Draw"
    ELSE "Loss"

OpeningsSeparator == <<"/", "o", "p", "e", "n", "i", "n", "g", "s", "/">>

SpecialSchemes == {<<"h", "t", "t", "p">>, <<"h", "t", "t", "p", "s">>}

\* The outcome of new URL(str) when the constructor throws
InvalidUrl == <<"<invalid>">>

\* new URL(str).pathname, InvalidUrl when the constructor throws. The scheme is
\* a letter followed by letters, digits, "+", "-" or "." up to the first
\* ":"; without one there is no absolute URL. After an http(s) scheme every
\* "/" is skipped and a non-empty host must follow; the path runs from the
\* first "/" after the host to the first "?" or "#" and is "/" when empty.
\* After another scheme the path follows an optional "//" authority. The
\* strings handed in hold no character that the constructor would
\* percent-encode, strip or reject, and no "." or ".." path segment.
urlPathname(str) ==
    LET colon    == IndexOfFrom(str, <<":">>, 1)
        scheme   == toLowerCase(SubSeq(str, 1, colon - 1))
        schemeOk ==
            /\ colon > 1
            /\ LowerChar(str[1]) \in {LowerLetters[k] : k \in DOMAIN LowerLetters}
            /\ \A i \in 1..(colon - 1) :
                  \/ LowerChar(str[i]) \in {LowerLetters[k] : k \in DOMAIN LowerLetters}
                  \/ IsDigit(str[i])
                  \/ str[i] \in {"+", "-", "."}
        \* the end of the path: the first "?" or "#" at or after position i
        pathFrom(i) ==
            LET stop == IndexOfAnyFrom(str, {"?", "#"}, i)
            IN  SubSeq(str, i, IF stop = 0 THEN Len(str) ELSE stop - 1)
        afterSlashes ==
            LET other == {i \in (colon + 1)..Len(str) : str[i] # "/"}
            IN  IF other = {} THEN Len(str) + 1
                ELSE CHOOSE i \in other : \A j \in other : i <= j
        hostEnd(i) ==
            LET stop == IndexOfAnyFrom(str, {"/", "?", "#"}, i)
            IN  IF stop = 0 THEN Len(str) + 1 ELSE stop
    IN  IF ~schemeOk THEN InvalidUrl
        ELSE IF scheme \in SpecialSchemes
        THEN IF hostEnd(afterSlashes) = afterSlashes THEN InvalidUrl
             ELSE LET path == pathFrom(hostEnd(afterSlashes))
                  IN  IF path = <<>> THEN <<"/">> ELSE path
        ELSE IF OccursAt(str, colon + 1, <<"/", "/">>)
        THEN pathFrom(hostEnd(colon + 3))
        ELSE pathFrom(colon + 1)

\* path.split("/openings/")[1] ?? "": the text between the first separator
\* and the next one, "" when there is no separator
afterOpenings(path) ==
    LET first == IndexOfFrom(path, OpeningsSeparator, 1)
        start == first + Len(OpeningsSeparator)
        next  == IndexOfFrom(path, OpeningsSeparator, start)
    IN  IF first = 0 THEN <<>>
        ELSE SubSeq(path, start, IF next = 0 THEN Len(path) ELSE next - 1)

\* str.replace(/-(\d)/g, " $1")
replaceHyphenDigit(str) ==
    [i \in DOMAIN str |->
        IF str[i] = "-" /\ i < Len(str) /\ IsDigit(str[i + 1]) THEN " " ELSE str[i]]

\* str.replace(/-/g, " ")
replaceHyphen(str) == [i \in DOMAIN str |-> IF str[i] = "-" THEN " " ELSE str[i]]

\* An extraction without the "Unknown" fallbacks
parseOpeningFromEcoUrl_NoFallback(ecoUrl) ==
    IF urlPathname(ecoUrl) = InvalidUrl THEN <<>>
    ELSE replaceHyphen(replaceHyphenDigit(afterOpenings(urlPathname(ecoUrl))))

parseOpeningFromEcoUrl(ecoUrl) ==
    LET pathname == urlPathname(ecoUrl)
    IN  IF pathname = InvalidUrl THEN Unknown
        ELSE LET cleaned == replaceHyphen(replaceHyphenDigit(afterOpenings(pathname)))
             IN  IF cleaned = <<>> THEN Unknown ELSE cleaned

\* The capture of the first match of /\[<tag>\s+"([^"]+)"\]/ in pgn,
\* Undefined when there is no match
pgnTag(pgn, tag) ==
    LET open == <<"[">> \o tag
        \* the capture of a match that starts at i, Undefined if none does
        captureAt(i) ==
            LET space == i + Len(open)
                quote == SkipWhitespace(pgn, space)
                close == IndexOfFrom(pgn, <<"\"">>, quote + 1)
            IN  IF /\ OccursAt(pgn, i, open)
                   /\ quote > space
                   /\ OccursAt(pgn, quote, <<"\"">>)
                   /\ close > quote + 1
                   /\ OccursAt(pgn, close + 1, <<"]">>)
                THEN SubSeq(pgn, quote + 1, close - 1)
                ELSE Undefined
        starts == {i \in DOMAIN pgn : captureAt(i) # Undefined}
    IN  IF starts = {} THEN Undefined
        ELSE captureAt(CHOOSE i \in starts : \A j \in starts : i <= j)

TagOpening == <<"O", "p", "e", "n", "i", "n", "g">>
TagECOUrl == <<"E", "C", "O", "U", "r", "l">>
TagECO == <<"E", "C", "O">>

parseOpeningFromPgn(pgn) ==
    IF pgnTag(pgn, TagOpening) # Undefined THEN pgnTag(pgn, TagOpening)
    ELSE IF pgnTag(pgn, TagECOUrl) # Undefined
    THEN parseOpeningFromEcoUrl(pgnTag(pgn, TagECOUrl))
    ELSE IF pgnTag(pgn, TagECO) # Undefined THEN pgnTag(pgn, TagECO)
    ELSE Unknown

LineTerminators == {"\n", "\r"}

\* Move text that keeps the bracketed text
stripHeaders_Keep(pgn) == pgn

\* pgn.replace(/\[.*?\]\s*/g, ""): from the left, each "[" that has a "]"
\* after it on the same line is removed up to the first such "]", together
\* with the whitespace that follows
stripHeaders(pgn) ==
    LET \* the position after the match that starts at i, 0 if none does
        matchEnd(i) ==
            LET close == IndexOfFrom(pgn, <<"]">>, i + 1)
            IN  IF /\ pgn[i] = "["
                   /\ close # 0
                   /\ \A k \in (i + 1)..(close - 1) : pgn[k] \notin LineTerminators
                THEN SkipWhitespace(pgn, close + 1)
                ELSE 0
        \* scan[i]: what is kept of the text from position i on
        scan[i \in 1..(Len(pgn) + 1)] ==
            IF i > Len(pgn) THEN <<>>
            ELSE IF matchEnd(i) # 0 THEN scan[matchEnd(i)]
            ELSE <<pgn[i]>> \o scan[i + 1]
    IN  scan[1]

\* movesSection.match(/(\d+)\./g) mapped through parseInt: the maximal runs
\* of digits that a "." follows
moveNumbers(movesSection) ==
    LET runStarts ==
            {i \in DOMAIN movesSection :
                /\ IsDigit(movesSection[i])
                /\ (i = 1 \/ ~IsDigit(movesSection[i - 1]))}
        runEnd(i) ==
            LET after == {j \in i..Len(movesSection) : ~IsDigit(movesSection[j])}
            IN  IF after = {} THEN Len(movesSection)
                ELSE (CHOOSE j \in after : \A k \in after : j <= k) - 1
    IN  {parseInt(SubSeq(movesSection, i, runEnd(i))) :
            i \in {j \in runStarts : OccursAt(movesSection, runEnd(j) + 1, <<".">>)}}

countMovesFromPgn(pgn) ==
    LET movesSection == trim(stripHeaders(pgn))
        numbers      == moveNumbers(movesSection)
    IN  IF movesSection = <<>> THEN 0
        ELSE IF numbers = {} THEN 0
        ELSE CHOOSE n \in numbers : \A m \in numbers : n >= m

\* A side test that compares the names as written
chessComIsWhite_CaseSensitive(game, user) ==
    game.white.username = user

\* game.white.username.toLowerCase() === username.toLowerCase()
chessComIsWhite(game, user) ==
    toLowerCase(game.white.username) = toLowerCase(user)

\* An outcome string taken from the white player on either side
chessComPlayerResult_WhiteAlways(game, isWhite) ==
    game.white.result

\* isWhite ? game.white.result : game.black.result
chessComPlayerResult(game, isWhite) ==
    IF isWhite THEN game.white.result ELSE game.black.result

\* An opening that is looked for in the PGN before the eco field
chessComOpening_PgnFirst(game) ==
    IF game.pgn # Undefined /\ game.pgn # <<>> THEN parseOpeningFromPgn(game.pgn)
    ELSE IF game.eco # Undefined /\ game.eco # <<>> THEN parseOpeningFromEcoUrl(game.eco)
    ELSE Unknown

\* The opening of a Chess.com game: the eco field when it is a non-empty
\* string, else the PGN when it is one
chessComOpening(game) ==
    IF game.eco # Undefined /\ game.eco # <<>> THEN parseOpeningFromEcoUrl(game.eco)
    ELSE IF game.pgn # Undefined /\ game.pgn # <<>> THEN parseOpeningFromPgn(game.pgn)
    ELSE Unknown

\* normalizeChessComGame(game, username). Reading game.white.username of a
\* record without white, calling toLowerCase on a missing username, or
\* reading game.black.result of a record without black when the viewer is
\* not White, throws a TypeError. end_time is a valid instant in seconds;
\* date holds the instant in milliseconds.
normalizeChessComGame(game, user) ==
    IF game.white = Null THEN Raised
    ELSE IF game.white.username = Undefined THEN Raised
    ELSE
        LET isWhite == chessComIsWhite(game, user)
        IN  IF ~isWhite /\ game.black = Null THEN Raised
            ELSE
                [platform |-> "chess.com",
                 result   |-> parseChessComResult(chessComPlayerResult(game, isWhite)),
                 color    |-> IF isWhite THEN "White" ELSE "Black",
                 opening  |-> chessComOpening(game),
                 date     |-> game.end_time * 1000,
                 moves    |-> IF game.pgn # Undefined /\ game.pgn # <<>>
                              THEN countMovesFromPgn(game.pgn) ELSE 0]

(***************************************************************************)
(* lib/normalize.ts: Lichess                                               *)
(***************************************************************************)

\* player.user?.name ?? player.user?.id ?? ""
lichessUserName(player) ==
    IF player.user = Null THEN <<>>
    ELSE IF player.user.name # Undefined THEN player.user.name
    ELSE IF player.user.id # Undefined THEN player.user.id
    ELSE <<>>

\* A side test that compares the names as written
lichessIsWhite_CaseSensitive(game, user) ==
    lichessUserName(game.players.white) = user

\* whiteUser.toLowerCase() === username.toLowerCase()
lichessIsWhite(game, user) ==
    toLowerCase(lichessUserName(game.players.white)) = toLowerCase(user)

\* A result that is decided by the winner field alone, absent or not
lichessResult_NoDrawBranch(game, isWhite) ==
    IF game.winner = (IF isWhite THEN "white" ELSE "black") THEN "Win" ELSE "Loss"

\* The result of a Lichess game; !game.winner holds for undefined and ""
lichessResult(game, isWhite) ==
    IF game.winner = Absent \/ game.winner = "" THEN "Draw"
    ELSE IF game.winner = (IF isWhite THEN "white" ELSE "black") THEN "Win"
    ELSE "Loss"

\* game.opening?.name ?? "Unknown"
lichessOpening(game) ==
    IF game.opening = Null THEN Unknown
    ELSE IF game.opening.name = Undefined THEN Unknown
    ELSE game.opening.name

\* The move count of a Lichess game. A ply of 0 stands for an absent ply as
\* well: both are falsy.
lichessMoves(game) ==
    IF game.moves # Undefined /\ game.moves # <<>>
    THEN CeilHalf(splitWhitespaceLength(trim(game.moves)))
    ELSE IF game.opening # Null /\ game.opening.ply # 0
    THEN CeilHalf(game.opening.ply)
    ELSE 0

\* normalizeLichessGame(game, username). Reading game.players.white.user or
\* game.players.black.user of a record without players, or without one of
\* the two players, throws a TypeError. createdAt is a valid instant in
\* milliseconds, so toISOString does not throw; date holds the instant.
normalizeLichessGame(game, user) ==
    IF game.players = Null THEN Raised
    ELSE IF game.players.white = Null \/ game.players.black = Null THEN Raised
    ELSE
        LET isWhite == lichessIsWhite(game, user)
        IN  [platform |-> "lichess",
             result   |-> lichessResult(game, isWhite),
             color    |-> IF isWhite THEN "White" ELSE "Black",
             opening  |-> lichessOpening(game),
             date     |-> game.createdAt,
             moves    |-> lichessMoves(game)]

(***************************************************************************)
(* app/api/chess-com/route.ts and app/api/lichess/route.ts                 *)
(*                                                                         *)
(* An optional number is <<>> when absent and <<n>> when present.          *)
(***************************************************************************)

\* array.reverse()
Reverse(s) == [i \in DOMAIN s |-> s[Len(s) + 1 - i]]

\* The first present number of a list of optional numbers, <<>> if none
FirstPresent(optionals) ==
    LET present == {i \in DOMAIN optionals : optionals[i] # <<>>}
    IN  IF present = {} THEN <<>>
        ELSE optionals[CHOOSE i \in present : \A j \in present : i <= j]

\* The current rating of the Chess.com route: the last rating of the first
\* of chess_rapid, chess_blitz, chess_bullet, chess_daily that has one
chessComRating(playerStats) ==
    IF ~playerStats.ok THEN <<>> ELSE FirstPresent(playerStats.modes)

GAMES_LIMIT == 50

\* allRawGames after the loop over the archives, newest month first, each
\* month newest game first; a month whose fetch fails is skipped, and no
\* month is fetched once GAMES_LIMIT games are collected
collectRawGames(archives) ==
    LET recent == Reverse(archives)
        all[i \in 0..Len(recent)] ==
            IF i = 0 THEN <<>>
            ELSE IF Len(all[i - 1]) >= GAMES_LIMIT THEN all[i - 1]
            ELSE IF ~recent[i].ok THEN all[i - 1]
            ELSE all[i - 1] \o Reverse(recent[i].games)
    IN  all[Len(recent)]

\* The array a map call returned
Mapped(items) == [items |-> items]

\* last50.map((game) => normalizeChessComGame(game, username)): Raised as
\* soon as one call throws
RECURSIVE mapNormalizeChessCom(_, _)
mapNormalizeChessCom(rawGames, user) ==
    IF rawGames = <<>> THEN Mapped(<<>>)
    ELSE LET first == normalizeChessComGame(Head(rawGames), user)
             rest  == mapNormalizeChessCom(Tail(rawGames), user)
         IN  IF first = Raised THEN Raised
             ELSE IF rest = Raised THEN Raised
             ELSE Mapped(<<first>> \o rest.items)

\* NextResponse.json({ error }, { status }); the user name that the 404
\* message quotes is left out of the message
ErrorResponse(code, message) ==
    [status |-> code, error |-> message, games |-> <<>>, rating |-> <<>>]

OkResponse(normalGames, currentRating) ==
    [status |-> 200, error |-> "", games |-> normalGames, rating |-> currentRating]

\* GET of the Chess.com route for a non-empty username
chessComGET(site, user) ==
    IF site.archivesStatus = 404
    THEN ErrorResponse(404, "Chess.com user not found")
    ELSE IF site.archivesStatus # 200
    THEN ErrorResponse(site.archivesStatus, "Chess.com API error")
    ELSE IF site.archives = <<>>
    THEN OkResponse(<<>>, chessComRating(site.stats))
    ELSE LET last50      == Slice(collectRawGames(site.archives), GAMES_LIMIT)
             normalGames == mapNormalizeChessCom(last50, user)
         IN  IF normalGames = Raised
             THEN ErrorResponse(500, "Failed to fetch games from Chess.com")
             ELSE OkResponse(normalGames.items, chessComRating(site.stats))

\* The current rating of the Lichess route: the rating of the first of
\* rapid, blitz, bullet, classical with games played, else of the first
\* with a rating at all
lichessRating(user) ==
    IF ~user.ok THEN <<>>
    ELSE LET played == [i \in DOMAIN user.perfs |->
                           IF user.perfs[i].games > 0 THEN user.perfs[i].rating
                           ELSE <<>>]
             any    == [i \in DOMAIN user.perfs |-> user.perfs[i].rating]
         IN  IF FirstPresent(played) # <<>> THEN FirstPresent(played)
             ELSE FirstPresent(any)

\* A line of the NDJSON body: one that decodes to a record (held as the
\* record), an empty line, or text that is no JSON
EmptyLine == [empty |-> TRUE]
GarbageLine == [garbage |-> TRUE]

\* text.trim().split("\n").filter((line) => line.length > 0).map(JSON.parse)
\* followed by rawGames.map((game) => normalizeLichessGame(game, username)):
\* Raised as soon as JSON.parse or the parser throws
RECURSIVE mapNormalizeLichess(_, _)
mapNormalizeLichess(lines, user) ==
    IF lines = <<>> THEN Mapped(<<>>)
    ELSE IF Head(lines) = EmptyLine THEN mapNormalizeLichess(Tail(lines), user)
    ELSE IF Head(lines) = GarbageLine THEN Raised
    ELSE LET first == normalizeLichessGame(Head(lines), user)
             rest  == mapNormalizeLichess(Tail(lines), user)
         IN  IF first = Raised THEN Raised
             ELSE IF rest = Raised THEN Raised
             ELSE Mapped(<<first>> \o rest.items)

\* GET of the Lichess route for a non-empty username
lichessGET(site, user) ==
    IF site.gamesStatus = 404
    THEN ErrorResponse(404, "Lichess user not found")
    ELSE IF site.gamesStatus # 200
    THEN ErrorResponse(site.gamesStatus, "Lichess API error")
    ELSE LET normalGames == mapNormalizeLichess(site.lines, user)
         IN  IF normalGames = Raised
             THEN ErrorResponse(500, "Failed to fetch games from Lichess")
             ELSE OkResponse(normalGames.items, lichessRating(site.user))

(***************************************************************************)
(* app/page.tsx: handleFetch and gameStats                                 *)
(***************************************************************************)

NotRequested == [requested |-> FALSE]
Pending == [pending |-> TRUE]

\* gameStats: null without games, else computeStats(combinedGames)
gameStats(gamesSet, combined) ==
    IF ~gamesSet \/ combined = <<>> THEN Null ELSE computeStats(combined)

\* handleFetch up to the await: with both fields blank it reports an error
\* and returns; else it clears the page and issues one request per filled
\* field. combinedGames is null while home.gamesSet is FALSE; error and
\* insightsError are "" when null.
HandleFetchStart ==
    /\ fetch.phase = "idle"
    /\ IF trim(inputs.chessCom) = <<>> /\ trim(inputs.lichess) = <<>>
       THEN /\ home' = [home EXCEPT !.error = "Please enter at least one username."]
            /\ fetch' = [fetch EXCEPT !.phase = "done"]
            /\ UNCHANGED <<games, stats>>
       ELSE /\ home' = [loading |-> TRUE, error |-> "", gamesSet |-> FALSE,
                        fetchCounts |-> Null,
                        ratings |-> [chessCom |-> <<>>, lichess |-> <<>>],
                        aiInsights |-> Null, insightsError |-> "",
                        insightsRequested |-> FALSE]
            /\ games' = <<>>
            /\ stats' = gameStats(FALSE, <<>>)
            /\ fetch' = [phase    |-> "waiting",
                         chessCom |-> IF trim(inputs.chessCom) = <<>>
                                      THEN NotRequested ELSE Pending,
                         lichess  |-> IF trim(inputs.lichess) = <<>>
                                      THEN NotRequested ELSE Pending]
    /\ UNCHANGED <<raw, username, normalized, api, inputs,
                 basis, limiter, learn, session>>

\* The Chess.com route answers the page's request
ChessComGET ==
    /\ fetch.phase = "waiting"
    /\ fetch.chessCom = Pending
    /\ fetch' = [fetch EXCEPT !.chessCom = chessComGET(api.chessCom, trim(inputs.chessCom))]
    /\ UNCHANGED <<games, stats, raw, username, normalized, api, inputs, home,
                 basis, limiter, learn, session>>

\* The Lichess route answers the page's request
LichessGET ==
    /\ fetch.phase = "waiting"
    /\ fetch.lichess = Pending
    /\ fetch' = [fetch EXCEPT !.lichess = lichessGET(api.lichess, trim(inputs.lichess))]
    /\ UNCHANGED <<games, stats, raw, username, normalized, api, inputs, home,
                 basis, limiter, learn, session>>

\* chessComResult?.games ?? [] and chessComResult?.rating ?? null
ResultGames(response) == IF response = NotRequested THEN <<>> ELSE response.games
ResultRating(response) == IF response = NotRequested THEN <<>> ELSE response.rating

\* The responses that arrived and are not ok: each makes its request
\* throw new Error(data.error), and Promise.all rejects with the first
Failed ==
    {r \in {fetch.chessCom, fetch.lichess} :
        r # NotRequested /\ r # Pending /\ r.status # 200}

\* handleFetch after Promise.all: with every response ok it combines the
\* games, sorts them by date (most recent first) and publishes them; as
\* soon as a response is not ok it sets the error and nothing else
HandleFetchSettle ==
    /\ fetch.phase = "waiting"
    /\ Failed # {} \/ (fetch.chessCom # Pending /\ fetch.lichess # Pending)
    /\ fetch' = [fetch EXCEPT !.phase = "done"]
    /\ IF Failed # {}
       THEN /\ \E r \in Failed :
                  home' = [home EXCEPT !.error = r.error, !.loading = FALSE]
            /\ UNCHANGED <<games, stats>>
       ELSE LET chessComGames == ResultGames(fetch.chessCom)
                lichessGames  == ResultGames(fetch.lichess)
                combined      == SortBy(chessComGames \o lichessGames, "dateDesc")
            IN  /\ games' = combined
                /\ stats' = gameStats(TRUE, combined)
                /\ home' = [home EXCEPT
                              !.gamesSet = TRUE,
                              !.fetchCounts = [chessComCount |-> Len(chessComGames),
                                               lichessCount  |-> Len(lichessGames)],
                              !.ratings = [chessCom |-> ResultRating(fetch.chessCom),
                                           lichess  |-> ResultRating(fetch.lichess)],
                              !.loading = FALSE]
    /\ UNCHANGED <<raw, username, normalized, api, inputs,
                 basis, limiter, learn, session>>

HomeNext == HandleFetchStart \/ ChessComGET \/ LichessGET \/ HandleFetchSettle

(***************************************************************************)
(* Aggregator inputs                                                       *)
(***************************************************************************)

MaxGames == 3
MaxOpeningGames == 5

Italian == <<"I", "t">>
Sicilian == <<"S", "i">>
French == <<"F", "r">>

Results == {"Win", "Loss", "Draw"}
Colors == {"White", "Black"}

\* The NormalizedGame values the aggregator is applied to: every result and
\* color, a blank opening, the literal "Unknown" and a named opening
StatsGames ==
    [platform : {"chess.com"}, result : Results, color : Colors,
     opening : {<<>>, Unknown, Italian}, date : {0}, moves : {20}]

\* The NormalizedGame values used for the opening ranking: three openings,
\* won or lost
OpeningGames ==
    [platform : {"lichess"}, result : {"Win", "Loss"}, color : {"White"},
     opening : {Italian, Sicilian, French}, date : {0}, moves : {20}]

SeqsUpTo(S, n) == UNION {[1..k -> S] : k \in 0..n}

\* computeStats(games)
ComputeStats ==
    /\ stats = NotCalled
    /\ stats' = computeStats(games)
    /\ UNCHANGED <<games, raw, username, normalized, api, inputs, fetch, home,
                 basis, limiter, learn, session>>

\* The page and route variables, when only a library function runs
NoHome ==
    /\ api = Null
    /\ inputs = Null
    /\ fetch = Null
    /\ home = Null

NoBasis == basis = <<>>
NoRoute == limiter = Null
NoLearn == learn = Null
NoSession == session = Null

NoPage ==
    /\ NoHome
    /\ NoBasis
    /\ NoRoute
    /\ NoLearn
    /\ NoSession

\* The parser variables, when no parser runs
NoParser ==
    /\ raw = Null
    /\ username = <<>>
    /\ normalized = NotCalled

InitStats ==
    /\ games \in SeqsUpTo(StatsGames, MaxGames)
    /\ stats = NotCalled
    /\ NoParser
    /\ NoPage

SpecStats == InitStats /\ [][ComputeStats]_vars

InitOpenings ==
    /\ games \in SeqsUpTo(OpeningGames, MaxOpeningGames)
    /\ stats = NotCalled
    /\ NoParser
    /\ NoPage

SpecOpenings == InitOpenings /\ [][ComputeStats]_vars

\* Openings that differ in case or in whitespace only, a blank one, an empty
\* one, a missing one and the literal "Unknown"
GroupingOpenings ==
    {Italian, <<"i", "t">>, <<"I", "t", " ">>, <<" ">>, <<>>, Undefined, Unknown}

GroupingGames ==
    [platform : {"lichess"}, result : {"Win", "Draw"}, color : {"White"},
     opening : GroupingOpenings, date : {0}, moves : {20}]

InitGrouping ==
    /\ games \in SeqsUpTo(GroupingGames, MaxGames)
    /\ stats = NotCalled
    /\ NoParser
    /\ NoPage

SpecGrouping == InitGrouping /\ [][ComputeStats]_vars

\* Tallies up to 16 games, the least total with a rate that ends in a half
\* of a tenth (1 of 16 is 6.25%)
MaxTally == 16

\* count games with the given result, color and opening
Tally(count, result, color, name) ==
    [i \in 1..count |->
        [platform |-> "chess.com", result |-> result, color |-> color,
         opening |-> name, date |-> 0, moves |-> 20]]

\* Up to MaxTally White games, won and not won, in one opening, then Black
\* games
InitRates ==
    /\ \E won, notWon \in 0..MaxTally, blackWon, blackDrawn \in 0..1 :
          /\ won + notWon <= MaxTally
          /\ games = Tally(won, "Win", "White", Italian)
                          \o Tally(notWon, "Loss", "White", Italian)
                          \o Tally(blackWon, "Win", "Black", Sicilian)
                          \o Tally(blackDrawn, "Draw", "Black", Sicilian)
    /\ stats = NotCalled
    /\ NoParser
    /\ NoPage

SpecRates == InitRates /\ [][ComputeStats]_vars

\* Six openings, one more than the most-played list holds
MaxCount == 2
Caro == <<"C", "a">>
Dutch == <<"D", "u">>
English == <<"E", "n">>
SixOpenings == <<Italian, Sicilian, French, Caro, Dutch, English>>

\* How often each of the six openings is played
PlayCounts == [1..Len(SixOpenings) -> 0..MaxCount]

\* The games of one opening, all of them won as White
Block(name, count) ==
    [i \in 1..count |->
        [platform |-> "lichess", result |-> "Win", color |-> "White",
         opening |-> name, date |-> 0, moves |-> 20]]

\* The games of the six openings, opening by opening in the given order
RECURSIVE Blocks(_, _)
Blocks(order, counts) ==
    IF order = <<>> THEN <<>>
    ELSE Block(SixOpenings[Head(order)], counts[Head(order)])
             \o Blocks(Tail(order), counts)

\* The orders in which the openings first appear
AppearanceOrders == {<<1, 2, 3, 4, 5, 6>>, <<6, 5, 4, 3, 2, 1>>, <<4, 1, 6, 2, 5, 3>>}

InitMostPlayed ==
    /\ games \in {Blocks(order, counts) : order \in AppearanceOrders, counts \in PlayCounts}
    /\ stats = NotCalled
    /\ NoParser
    /\ NoPage

SpecMostPlayed == InitMostPlayed /\ [][ComputeStats]_vars

\* The collections of SpecStats, and no collection at all
InitNullable ==
    /\ games \in SeqsUpTo(StatsGames, MaxGames) \cup {NullGames}
    /\ stats = NotCalled
    /\ NoParser
    /\ NoPage

SpecNullable == InitNullable /\ [][ComputeStats]_vars

(***************************************************************************)
(* Parser inputs                                                           *)
(***************************************************************************)

\* User names: the same name in three spellings, another name, and none
Al == <<"a", "l">>
AlCap == <<"A", "l">>
AlUpper == <<"A", "L">>
Bo == <<"b", "o">>

\* The user descriptor of a Lichess player: absent (an anonymous or AI
\* player), with a registered name, or with an account id only
LichessUsers ==
    {Null}
        \cup [name : {AlCap, Bo}, id : {Al, Bo}]
        \cup [name : {Undefined}, id : {Al, Undefined}]

LichessPlayers == [user : LichessUsers]

LichessStatuses == {"draw", "mate", "aborted", "noStart"}

LichessOpenings == {Null, [eco |-> <<"C", "5", "0">>, name |-> Italian, ply |-> 5]}

\* Space-separated SAN half-moves: none, one, three
LichessMoveLists ==
    {Undefined, <<"e", "4">>, <<"e", "4", " ", "e", "5", " ", "N", "f", "3">>}

LichessGames ==
    [players   : [white : LichessPlayers, black : LichessPlayers],
     winner    : {Absent, "white", "black"},
     status    : LichessStatuses,
     opening   : LichessOpenings,
     createdAt : {1700000000},
     moves     : LichessMoveLists]

LichessUsernames == {Al, AlUpper, Bo, <<"z">>, <<>>}

\* Outcome strings of a Chess.com player: the win, losses, every draw
\* outcome, the empty string and a spelling the platform does not use
ChessComOutcomes ==
    {"win", "checkmated", "resigned", "timeout", "abandoned", "", "Win",
     "stalemate", "insufficient", "agreed", "repetition", "50move",
     "timevsinsufficient"}

ItalianEcoUrl ==
    <<"h", "t", "t", "p", "s", ":", "/", "/", "c", ".", "c", "o", "m",
      "/", "o", "p", "e", "n", "i", "n", "g", "s", "/",
      "I", "t", "-", "G", "-", "4", ".", ".", ".", "N", "f", "6">>

\* [Opening "Si"] and [ECO "B20"] headers, then 1. e4 c5 2. Nf3 *
SicilianPgn ==
    <<"[", "O", "p", "e", "n", "i", "n", "g", " ", "\"", "S", "i", "\"", "]", "\n",
      "[", "E", "C", "O", " ", "\"", "B", "2", "0", "\"", "]", "\n", "\n",
      "1", ".", " ", "e", "4", " ", "c", "5", " ",
      "2", ".", " ", "N", "f", "3", " ", "*">>

ChessComGames ==
    [white    : [username : {AlCap}, result : ChessComOutcomes, rating : {1500}],
     black    : [username : {Bo}, result : ChessComOutcomes, rating : {1480}],
     end_time : {1700},
     pgn      : {Undefined, SicilianPgn},
     eco      : {Undefined, ItalianEcoUrl}]

ChessComUsernames == {Al, AlUpper, Bo, <<"z">>}

\* The aggregator variables, when only a parser runs
NoStats ==
    /\ games = <<>>
    /\ stats = NotCalled

\* normalizeLichessGame(raw, username)
NormalizeLichess ==
    /\ normalized = NotCalled
    /\ normalized' = normalizeLichessGame(raw, username)
    /\ UNCHANGED <<games, stats, raw, username, api, inputs, fetch, home,
                 basis, limiter, learn, session>>

InitLichess ==
    /\ raw \in LichessGames
    /\ username \in LichessUsernames
    /\ normalized = NotCalled
    /\ NoStats
    /\ NoPage

SpecLichess == InitLichess /\ [][NormalizeLichess]_vars

\* normalizeChessComGame(raw, username)
NormalizeChessCom ==
    /\ normalized = NotCalled
    /\ normalized' = normalizeChessComGame(raw, username)
    /\ UNCHANGED <<games, stats, raw, username, api, inputs, fetch, home,
                 basis, limiter, learn, session>>

InitChessCom ==
    /\ raw \in ChessComGames
    /\ username \in ChessComUsernames
    /\ normalized = NotCalled
    /\ NoStats
    /\ NoPage

SpecChessCom == InitChessCom /\ [][NormalizeChessCom]_vars

(***************************************************************************)
(* Parser inputs with optional fields absent, empty or malformed           *)
(***************************************************************************)

\* [ECO "B20"] before [ECOUrl "https://c.com/openings/Fr-D-3"], then 1. e4 e6 *
EcoUrlPgn ==
    <<"[", "E", "C", "O", " ", "\"", "B", "2", "0", "\"", "]", "\n", "[",
      "E", "C", "O", "U", "r", "l", " ", "\"", "h", "t", "t", "p", "s",
      ":", "/", "/", "c", ".", "c", "o", "m", "/", "o", "p", "e", "n", "i",
      "n", "g", "s", "/", "F", "r", "-", "D", "-", "3", "\"", "]", "\n",
      "\n", "1", ".", " ", "e", "4", " ", "e", "6", " ", "*">>

\* [ECO "B20"] alone, then 1. e4 *
EcoPgn ==
    <<"[", "E", "C", "O", " ", "\"", "B", "2", "0", "\"", "]", "\n", "\n",
      "1", ".", " ", "e", "4", " ", "*">>

\* [ECOUrl "x"], which is no URL, and [ECO "B20"]; no moves
BadEcoUrlPgn ==
    <<"[", "E", "C", "O", "U", "r", "l", " ", "\"", "x", "\"", "]", "\n",
      "[", "E", "C", "O", " ", "\"", "B", "2", "0", "\"", "]", "\n">>

\* [ECO "B20"], [ECOUrl "https://c.com/openings/Fr"] and, last, [Opening "Si"]
AllTagsPgn ==
    <<"[", "E", "C", "O", " ", "\"", "B", "2", "0", "\"", "]", "\n", "[",
      "E", "C", "O", "U", "r", "l", " ", "\"", "h", "t", "t", "p", "s",
      ":", "/", "/", "c", ".", "c", "o", "m", "/", "o", "p", "e", "n", "i",
      "n", "g", "s", "/", "F", "r", "\"", "]", "\n", "[", "O", "p", "e",
      "n", "i", "n", "g", " ", "\"", "S", "i", "\"", "]", "\n", "\n", "1",
      ".", " ", "d", "4", " ", "*">>

\* Moves without a header: 1. e4 e5
BarePgn ==
    <<"1", ".", " ", "e", "4", " ", "e", "5">>

\* A header that is cut off
BrokenPgn ==
    <<"[", "O", "p", "e", "n", "i", "n", "g", " ", "\"">>

\* Text that is no URL
NotAUrl ==
    <<"x">>

\* A URL without an /openings/ segment
NoOpeningsUrl ==
    <<"h", "t", "t", "p", "s", ":", "/", "/", "c", ".", "c", "o", "m", "/">>

\* A URL with nothing after /openings/
EmptySegmentUrl ==
    <<"h", "t", "t", "p", "s", ":", "/", "/", "c", ".", "c", "o", "m", "/",
      "o", "p", "e", "n", "i", "n", "g", "s", "/">>

\* A URL whose segment after /openings/ is a lone hyphen
HyphenSegmentUrl ==
    <<"h", "t", "t", "p", "s", ":", "/", "/", "c", ".", "c", "o", "m", "/",
      "o", "p", "e", "n", "i", "n", "g", "s", "/", "-">>

EcoValues ==
    {Undefined, <<>>, NotAUrl, NoOpeningsUrl, EmptySegmentUrl, HyphenSegmentUrl,
     ItalianEcoUrl}

PgnValues ==
    {Undefined, <<>>, BrokenPgn, BarePgn, BadEcoUrlPgn, EcoPgn, EcoUrlPgn,
     AllTagsPgn, SicilianPgn}

OptionalChessComGames ==
    [white    : [username : {AlCap}, result : {"win", "resigned"}, rating : {1500}],
     black    : [username : {Bo}, result : {"win", "agreed"}, rating : {1480}],
     end_time : {1700},
     pgn      : PgnValues,
     eco      : EcoValues]

\* An opening descriptor: absent, complete, with an empty name, without ply
OptionalLichessOpenings ==
    {Null,
     [eco |-> <<"C", "5", "0">>, name |-> Italian, ply |-> 5],
     [eco |-> <<"C", "5", "0">>, name |-> <<>>, ply |-> 5],
     [eco |-> <<"C", "5", "0">>, name |-> Italian, ply |-> 0]}

OptionalLichessGames ==
    [players   : [white : [user : {Null, [name |-> AlCap, id |-> Al]}],
                  black : [user : {Null, [name |-> Bo, id |-> Bo]}]],
     winner    : {Absent, "white", "black"},
     status    : {"draw", "mate"},
     opening   : OptionalLichessOpenings,
     createdAt : {1700000000},
     moves     : {Undefined, <<>>, <<"e", "4">>,
                  <<"e", "4", " ", "e", "5", " ", "N", "f", "3">>}]

\* The route of a platform hands its parser the records of that platform
IsChessComRecord(game) == "end_time" \in DOMAIN game
IsLichessRecord(game) == "createdAt" \in DOMAIN game

ParseChessCom == IsChessComRecord(raw) /\ NormalizeChessCom
ParseLichess == IsLichessRecord(raw) /\ NormalizeLichess

InitParsers ==
    /\ raw \in OptionalChessComGames \cup OptionalLichessGames
    /\ username \in {Al, Bo}
    /\ normalized = NotCalled
    /\ NoStats
    /\ NoPage

SpecParsers == InitParsers /\ [][ParseChessCom \/ ParseLichess]_vars

(***************************************************************************)
(* ECO URLs for the opening extraction                                     *)
(***************************************************************************)

MaxSegment == 4

\* The characters of a segment: a hyphen, a digit and two letters
SegmentChars == {"-", "4", "N", "f"}

\* https://c.com/openings/<segment>
EcoUrls == {EmptySegmentUrl \o segment : segment \in SeqsUpTo(SegmentChars, MaxSegment)}

\* parseOpeningFromEcoUrl(raw)
ParseOpeningFromEcoUrl ==
    /\ normalized = NotCalled
    /\ normalized' = [opening |-> parseOpeningFromEcoUrl(raw)]
    /\ UNCHANGED <<games, stats, raw, username, api, inputs, fetch, home,
                 basis, limiter, learn, session>>

InitEcoUrl ==
    /\ raw \in EcoUrls
    /\ username = <<>>
    /\ normalized = NotCalled
    /\ NoStats
    /\ NoPage

SpecEcoUrl == InitEcoUrl /\ [][ParseOpeningFromEcoUrl]_vars

(***************************************************************************)
(* Lichess move lists                                                      *)
(***************************************************************************)

\* 37 half-moves make 19 moves
MaxTokens == 37

\* A list of count half-moves, one space between two of them
RECURSIVE MoveList(_)
MoveList(count) ==
    IF count = 0 THEN <<>>
    ELSE IF count = 1 THEN <<"e">>
    ELSE MoveList(count - 1) \o <<" ", "e">>

\* Lists of 0 to MaxTokens half-moves; lists with more whitespace between
\* and around the half-moves; whitespace alone; no list
MoveLists ==
    {MoveList(count) : count \in 0..MaxTokens}
        \cup {<<" ", "e", "4", " ", " ", "e", "5", "\n", "N", "f", "3", " ">>,
               <<" ">>, <<" ", " ">>, Undefined}

MoveListGames ==
    [players   : {[white |-> [user |-> [name |-> AlCap, id |-> Al]],
                   black |-> [user |-> [name |-> Bo, id |-> Bo]]]},
     winner    : {"white"},
     status    : {"mate"},
     opening   : {Null} \cup [eco : {<<"C", "5", "0">>}, name : {Italian}, ply : {0, 5, 6}],
     createdAt : {1700000000},
     moves     : MoveLists]

InitMoveLists ==
    /\ raw \in MoveListGames
    /\ username = Al
    /\ normalized = NotCalled
    /\ NoStats
    /\ NoPage

SpecMoveLists == InitMoveLists /\ [][NormalizeLichess]_vars

(***************************************************************************)
(* Chess.com PGN move numbers                                              *)
(***************************************************************************)

MaxPgnTokens == 3

\* [Date "2024.01.15"] and a line end
DateHeader ==
    <<"[", "D", "a", "t", "e", " ", "\"", "2", "0", "2", "4", ".", "0",
      "1", ".", "1", "5", "\"", "]", "\n">>

\* [Round "99."] and an empty line
RoundHeader ==
    <<"[", "R", "o", "u", "n", "d", " ", "\"", "9", "9", ".", "\"", "]",
      "\n", "\n">>

\* {[%clk 0:09.5]} and a space
ClockComment ==
    <<"{", "[", "%", "c", "l", "k", " ", "0", ":", "0", "9", ".", "5", "]",
      "}", " ">>

PgnHeaders == {<<>>, DateHeader, RoundHeader, DateHeader \o RoundHeader}

\* Pieces of move text: the markers 1. 12. and 3... , a move, a clock comment
PgnTokens ==
    {<<"1", ".", " ">>, <<"1", "2", ".", " ">>, <<"3", ".", ".", ".", " ">>,
     <<"e", "4", " ">>, ClockComment}

PgnMoveTexts == SeqsUpTo(PgnTokens, MaxPgnTokens)

RECURSIVE Join(_)
Join(pieces) ==
    IF pieces = <<>> THEN <<>> ELSE Head(pieces) \o Join(Tail(pieces))

PgnOf(header, pieces) == header \o Join(pieces)

PgnTexts == {PgnOf(header, pieces) : header \in PgnHeaders, pieces \in PgnMoveTexts}

PgnGames ==
    [white    : {[username |-> AlCap, result |-> "win", rating |-> 1500]},
     black    : {[username |-> Bo, result |-> "checkmated", rating |-> 1480]},
     end_time : {1700},
     pgn      : PgnTexts \cup {Undefined},
     eco      : {Undefined}]

InitPgnMoves ==
    /\ raw \in PgnGames
    /\ username = Al
    /\ normalized = NotCalled
    /\ NoStats
    /\ NoPage

SpecPgnMoves == InitPgnMoves /\ [][NormalizeChessCom]_vars

(***************************************************************************)
(* The win-rate trend                                                      *)
(***************************************************************************)

\* StatsDashboard: nothing is shown while stats.winRateTrend != null is
\* false, which it is for a GameStats without the field; else the sign of
\* the field picks the label
trendLabel(s) ==
    IF "winRateTrend" \notin DOMAIN s THEN Absent
    ELSE IF s.winRateTrend > 0 THEN "Improving"
    ELSE IF s.winRateTrend < 0 THEN "Declining"
    ELSE "Stable"

\* The win rates of an earlier period, in tenths of a percent; <<>> is a
\* caller that has none
Bases == {<<>>, <<0>>, <<500>>, <<1000>>}

TrendGames ==
    [platform : {"lichess"}, result : Results, color : {"White"},
     opening : {Italian}, date : {0}, moves : {20}]

InitTrend ==
    /\ games \in SeqsUpTo(TrendGames, MaxGames)
    /\ stats = NotCalled
    /\ basis \in Bases
    /\ NoParser
    /\ NoHome
    /\ NoRoute
    /\ NoLearn
    /\ NoSession

SpecTrend == InitTrend /\ [][ComputeStats]_vars

(***************************************************************************)
(* The insights route and its rate limiter                                 *)
(***************************************************************************)

RATE_LIMIT_WINDOW_MS == 600000
MAX_REQUESTS_PER_WINDOW == 1

\* The period of the setInterval that cleans rateLimitStore
CLEANUP_INTERVAL_MS == 300000

CeilDiv(a, b) == (a + b - 1) \div b

\* The client addresses the requests carry; "unknown" is getClientIp's
\* fallback
IpA == "203.0.113.1"
IpB == "203.0.113.2"
Ips == {IpA, "unknown"}

\* getClientIp: the first entry of x-forwarded-for when the header is set
\* (held as the list of its comma-separated entries, trimmed), else
\* x-real-ip, else "unknown"
getClientIp(request) ==
    IF request.forwarded # <<>> THEN request.forwarded[1]
    ELSE IF request.realIp # Absent THEN request.realIp
    ELSE "unknown"

\* A decision that leaves no room for a call at the very end of the window
checkRateLimit_NotStrict(store, ip, now) ==
    LET entry == store[ip]
    IN  IF entry = Null \/ now >= entry.resetAt
        THEN [allowed |-> TRUE, retryAfterSecs |-> 0,
              store |-> [store EXCEPT ![ip] =
                            [count |-> 1, resetAt |-> now + RATE_LIMIT_WINDOW_MS]]]
        ELSE [allowed |-> FALSE,
              retryAfterSecs |-> CeilDiv(entry.resetAt - now, 1000),
              store |-> store]

\* checkRateLimit: the decision, and rateLimitStore after the call
checkRateLimit(store, ip, now) ==
    LET entry == store[ip]
    IN  IF entry = Null \/ now > entry.resetAt
        THEN [allowed |-> TRUE, retryAfterSecs |-> 0,
              store |-> [store EXCEPT ![ip] =
                            [count |-> 1, resetAt |-> now + RATE_LIMIT_WINDOW_MS]]]
        ELSE IF entry.count < MAX_REQUESTS_PER_WINDOW
        THEN [allowed |-> TRUE, retryAfterSecs |-> 0,
              store |-> [store EXCEPT ![ip] =
                            [count |-> entry.count + 1, resetAt |-> entry.resetAt]]]
        ELSE [allowed |-> FALSE,
              retryAfterSecs |-> CeilDiv(entry.resetAt - now, 1000),
              store |-> store]

\* The callback of setInterval: every entry whose window has passed goes
cleanup(store, now) ==
    [ip \in DOMAIN store |->
        IF store[ip] # Null /\ now > store[ip].resetAt THEN Null ELSE store[ip]]

\* What the handler answers once the rate limit let the request through:
\* 400 for a body without stats or games, 500 when reading the body, the
\* model call or the parsing of its answer fails, else 200
served(request) ==
    IF request.body = "notJson" THEN 500
    ELSE IF request.body \in {"noStats", "noGames"} THEN 400
    ELSE IF request.reply \in {"error", "noText", "notJson", "emptyArray"} THEN 500
    ELSE 200

\* A handler that gives the slot back when it could not serve the request
insightsPOST_SlotReturned(store, now, apiKey, request) ==
    LET ip    == getClientIp(request)
        limit == checkRateLimit(store, ip, now)
    IN  IF ~apiKey
        THEN [status |-> 500, retryAfter |-> 0, checked |-> FALSE, store |-> store]
        ELSE IF ~limit.allowed
        THEN [status |-> 429, retryAfter |-> limit.retryAfterSecs,
              checked |-> TRUE, store |-> limit.store]
        ELSE [status |-> served(request), retryAfter |-> 0, checked |-> TRUE,
              store |-> IF served(request) = 200 THEN limit.store
                        ELSE [limit.store EXCEPT ![ip] = Null]]

\* POST: 500 without an API key, before anything else; then the rate limit,
\* 429 with Retry-After when it refuses; then the request is served
insightsPOST(store, now, apiKey, request) ==
    LET ip    == getClientIp(request)
        limit == checkRateLimit(store, ip, now)
    IN  IF ~apiKey
        THEN [status |-> 500, retryAfter |-> 0, checked |-> FALSE, store |-> store]
        ELSE IF ~limit.allowed
        THEN [status |-> 429, retryAfter |-> limit.retryAfterSecs,
              checked |-> TRUE, store |-> limit.store]
        ELSE [status |-> served(request), retryAfter |-> 0, checked |-> TRUE,
              store |-> limit.store]

\* The clock is read at the instants around the multiples of the cleaning
\* period, up to MaxIntervals of them
MaxIntervals == 2

Instants == {k * CLEANUP_INTERVAL_MS + d : k \in 0..MaxIntervals, d \in {0, 1}}

Requests ==
    {[forwarded |-> h[1], realIp |-> h[2], body |-> b[1], reply |-> b[2]] :
        h \in {<<(<<IpA, IpB>>), IpB>>, <<(<<>>), IpA>>, <<(<<>>), Absent>>},
        b \in {<<"valid", "insights">>, <<"valid", "error">>,
               <<"noStats", "insights">>, <<"notJson", "insights">>}}

\* limiter.passed[ip] holds the latest request of ip that checkRateLimit
\* allowed, and limiter.last the latest request with what passed[ip] was
\* when it came
Post ==
    \E request \in Requests :
        LET ip     == getClientIp(request)
            answer == insightsPOST(limiter.store, limiter.now, limiter.apiKey, request)
            passes == answer.checked /\ answer.status # 429
        IN  limiter' = [limiter EXCEPT
                !.store  = answer.store,
                !.last   = [ip |-> ip, at |-> limiter.now, status |-> answer.status,
                            retryAfter |-> answer.retryAfter,
                            checked |-> answer.checked, allowed |-> passes,
                            before |-> limiter.passed[ip]],
                !.passed = IF passes
                           THEN [@ EXCEPT ![ip] =
                                    <<[at |-> limiter.now, status |-> answer.status]>>]
                           ELSE @]
    /\ UNCHANGED <<games, stats, raw, username, normalized, api, inputs, fetch,
                   home, basis, learn, session>>

\* Date.now() moves on
Advance ==
    /\ \E later \in Instants :
          /\ later > limiter.now
          /\ limiter' = [limiter EXCEPT !.now = later]
    /\ UNCHANGED <<games, stats, raw, username, normalized, api, inputs, fetch,
                   home, basis, learn, session>>

\* The interval timer fires: no sooner than one period after the route was
\* loaded, and from then on at any instant, as late as the event loop has it
Cleanup ==
    /\ limiter.now >= CLEANUP_INTERVAL_MS
    /\ limiter' = [limiter EXCEPT !.store = cleanup(limiter.store, limiter.now)]
    /\ UNCHANGED <<games, stats, raw, username, normalized, api, inputs, fetch,
                   home, basis, learn, session>>

InitInsights ==
    /\ limiter \in [now        : {0},
                    apiKey     : BOOLEAN,
                    store      : {[ip \in Ips |-> Null]},
                    last       : {Null},
                    passed     : {[ip \in Ips |-> <<>>]}]
    /\ NoStats
    /\ NoParser
    /\ NoHome
    /\ NoBasis
    /\ NoLearn
    /\ NoSession

SpecInsights == InitInsights /\ [][Post \/ Advance \/ Cleanup]_vars

(***************************************************************************)
(* The home page under overlapping handleFetch invocations                 *)
(***************************************************************************)

\* handleFetch is started at most MaxFetches times
MaxFetches == 3

\* What the routes answer the k-th invocation with when its user has
\* games: k games and a rating, all from Lichess
FetchedGames(k) ==
    [i \in 1..k |-> [platform |-> "lichess", result |-> "Win", color |-> "White",
                     opening |-> Italian, date |-> 0, moves |-> 20]]

\* What Promise.all can bring the k-th invocation: both results, with or
\* without games, or the error of a request that failed
Outcomes(k) ==
    {[ok |-> TRUE, chessComGames |-> <<>>, lichessGames |-> FetchedGames(k),
      chessComRating |-> <<>>, lichessRating |-> <<1500 + k>>],
     [ok |-> TRUE, chessComGames |-> <<>>, lichessGames |-> <<>>,
      chessComRating |-> <<>>, lichessRating |-> <<>>],
     [ok |-> FALSE, error |-> "Lichess fetch failed"]}

\* ratingApprox of the insights effect
ratingApprox(ratings) ==
    IF ratings.chessCom # <<>> /\ ratings.lichess # <<>>
    THEN <<RoundDiv(ratings.chessCom[1] + ratings.lichess[1], 2)>>
    ELSE IF ratings.chessCom # <<>> THEN ratings.chessCom
    ELSE ratings.lichess

\* The useEffect that follows a render, and the fetchInsights it calls up to
\* its await: with stats and games at hand and insightsRequested.current
\* unset, the ref is set, the insights are cleared and the request leaves.
\* combinedGames is null while session.gamesSet is FALSE; session.asked
\* holds the games of the latest request, if there was one.
insightsEffect(s) ==
    LET shown == gameStats(s.gamesSet, s.combinedGames)
    IN  IF shown = Null \/ ~s.gamesSet \/ s.insightsRequested THEN s
        ELSE [s EXCEPT
                !.insightsRequested = TRUE,
                !.insightsLoading   = TRUE,
                !.insightsError     = "",
                !.aiInsights        = Null,
                !.asked             = <<s.combinedGames>>,
                !.posts = @ \cup {[stats       |-> shown,
                                   ratingApprox |-> ratingApprox(s.ratings),
                                   games       |-> s.combinedGames]}]

\* handleFetch up to its await, from the button or from the Enter key of a
\* field: with both fields blank it sets the error and returns, else it
\* clears the page, unsets the ref and sends its requests. session.latest
\* is the latest invocation that sent requests, session.latestOutcome what
\* it got.
StartFetch ==
    /\ session.started < MaxFetches
    /\ \E blank \in BOOLEAN :
          LET id == session.started + 1
          IN  session' =
                IF blank
                THEN [session EXCEPT
                        !.started = id,
                        !.error   = "Please enter at least one username."]
                ELSE insightsEffect(
                     [session EXCEPT
                        !.started           = id,
                        !.flights           = @ \cup {id},
                        !.latest            = id,
                        !.latestOutcome     = Null,
                        !.loading           = TRUE,
                        !.error             = "",
                        !.gamesSet          = FALSE,
                        !.combinedGames     = <<>>,
                        !.fetchCounts       = Null,
                        !.ratings           = [chessCom |-> <<>>, lichess |-> <<>>],
                        !.aiInsights        = Null,
                        !.insightsError     = "",
                        !.insightsRequested = FALSE])
    /\ UNCHANGED <<games, stats, raw, username, normalized, api, inputs, fetch,
                   home, basis, limiter, learn>>

\* handleFetch from its await on, for an invocation in flight: the games
\* are combined, sorted and published with counts and ratings, or the error
\* is set; loading is unset either way, and the effect follows the render
SettleFetch ==
    /\ \E id \in session.flights :
       \E outcome \in Outcomes(id) :
          LET combined == SortBy(outcome.chessComGames \o outcome.lichessGames,
                                 "dateDesc")
              landed == [session EXCEPT
                            !.flights = @ \ {id},
                            !.latestOutcome = IF id = session.latest
                                              THEN outcome ELSE @,
                            !.loading = FALSE]
          IN  session' =
                IF outcome.ok
                THEN insightsEffect(
                     [landed EXCEPT
                        !.gamesSet = TRUE,
                        !.combinedGames = combined,
                        !.fetchCounts = [chessComCount |-> Len(outcome.chessComGames),
                                         lichessCount  |-> Len(outcome.lichessGames)],
                        !.ratings = [chessCom |-> outcome.chessComRating,
                                     lichess  |-> outcome.lichessRating]])
                ELSE [landed EXCEPT !.error = outcome.error]
    /\ UNCHANGED <<games, stats, raw, username, normalized, api, inputs, fetch,
                   home, basis, limiter, learn>>

\* fetchInsights from its await on, for a request in flight: the insights
\* made from the games of the request are published, or the error is set;
\* insightsLoading is unset either way
InsightsReply ==
    /\ \E post \in session.posts :
       \E ok \in BOOLEAN :
          session' =
            [session EXCEPT
                !.posts           = @ \ {post},
                !.insightsLoading = FALSE,
                !.aiInsights      = IF ok THEN [from |-> post.games] ELSE @,
                !.insightsError   = IF ok THEN @ ELSE "Failed to get insights"]
    /\ UNCHANGED <<games, stats, raw, username, normalized, api, inputs, fetch,
                   home, basis, limiter, learn>>

InitSession ==
    /\ session = [started |-> 0, flights |-> {}, latest |-> 0,
                  latestOutcome |-> Null, posts |-> {}, asked |-> <<>>,
                  loading |-> FALSE, error |-> "", gamesSet |-> FALSE,
                  combinedGames |-> <<>>,
                  fetchCounts |-> Null,
                  ratings |-> [chessCom |-> <<>>, lichess |-> <<>>],
                  aiInsights |-> Null, insightsLoading |-> FALSE,
                  insightsError |-> "", insightsRequested |-> FALSE]
    /\ NoStats
    /\ NoParser
    /\ NoHome
    /\ NoBasis
    /\ NoRoute
    /\ NoLearn

SpecSession == InitSession /\ [][StartFetch \/ SettleFetch \/ InsightsReply]_vars

(***************************************************************************)
(* The piece placement game                                                *)
(***************************************************************************)

FILES == <<"a", "b", "c", "d", "e", "f", "g", "h">>
RANKS == <<8, 7, 6, 5, 4, 3, 2, 1>>

\* A square is a file and a rank, "a1" being <<"a", 1>>
Squares == {<<FILES[f], RANKS[r]>> : f \in DOMAIN FILES, r \in DOMAIN RANKS}

BackRank == <<"R", "N", "B", "Q", "K", "B", "N", "R">>

\* Object.entries(STARTING_POSITION): entry idx of 0..31, in the order the
\* literal lists them (a1..h1, a2..h2, a7..h7, a8..h8)
StartingEntry(idx) ==
    LET file == (idx % 8) + 1
        row  == idx \div 8
    IN  [square |-> <<FILES[file], CASE row = 0 -> 1 [] row = 1 -> 2
                                     [] row = 2 -> 7 [] row = 3 -> 8>>,
         piece  |-> [type  |-> IF row \in {0, 3} THEN BackRank[file] ELSE "P",
                     color |-> IF row < 2 THEN "w" ELSE "b"]]

StartingSquares == {StartingEntry(idx).square : idx \in 0..31}

STARTING_POSITION ==
    [sq \in StartingSquares |->
        StartingEntry(CHOOSE idx \in 0..31 : StartingEntry(idx).square = sq).piece]

\* The pieces of the entries with the ids kind-0 .. kind-31
Identified(kind) ==
    {[id    |-> <<kind, idx>>,
      type  |-> StartingEntry(idx).piece.type,
      color |-> StartingEntry(idx).piece.color] : idx \in 0..31}

\* buildPieceBank: the 32 pieces with the ids bank-0 .. bank-31; the order
\* the shuffle leaves them in is read by no handler and is not kept
buildPieceBank == Identified("bank")

EmptyBoard == [sq \in Squares |-> Null]
NoResults == [sq \in Squares |-> Absent]

Occupied(board) == {sq \in Squares : board[sq] # Null}

piecesOnBoard(board) == {board[sq].id : sq \in Occupied(board)}

remainingBank(l) ==
    {p \in l.bankPieces : p.id \notin piecesOnBoard(l.boardState)}

\* initGame
initGame ==
    [bankPieces |-> buildPieceBank, boardState |-> EmptyBoard,
     activeDrag |-> Null, results |-> NoResults, checked |-> FALSE,
     score |-> Null]

\* The first updater of handleDragEnd: the dragged piece leaves the squares
\* that hold it and takes the target square, whatever stood there
dropOnSquare(board, piece, square) ==
    [sq \in Squares |->
        IF sq = square THEN piece
        ELSE IF board[sq] # Null /\ board[sq].id = piece.id THEN Null
        ELSE board[sq]]

\* The second updater: the dragged piece leaves the squares that hold it
dropOnBank(board, piece) ==
    [sq \in Squares |->
        IF board[sq] # Null /\ board[sq].id = piece.id THEN Null ELSE board[sq]]

\* newResults of checkAnswer
checkedResults(board) ==
    [sq \in Squares |->
        IF sq \in StartingSquares
        THEN IF /\ board[sq] # Null
                /\ board[sq].type = STARTING_POSITION[sq].type
                /\ board[sq].color = STARTING_POSITION[sq].color
             THEN "correct" ELSE "wrong"
        ELSE IF board[sq] # Null THEN "wrong" ELSE Absent]

\* { correct, total } of checkAnswer
checkedScore(board) ==
    [correct |-> Cardinality({sq \in StartingSquares :
                                 checkedResults(board)[sq] = "correct"}),
     total   |-> Cardinality(StartingSquares)]

\* answer of showAnswer
answerBoard ==
    [sq \in Squares |->
        IF sq \in StartingSquares
        THEN CHOOSE p \in Identified("answer") :
                StartingEntry(p.id[2]).square = sq
        ELSE Null]

\* The player handles the pieces of the first MaxHand entries
MaxHand == 2

\* and drops them on a1, b1 and e4
DropSquares == {<<"a", 1>>, <<"b", 1>>, <<"e", 4>>}

\* What a drag can end over: nothing, the bank, one of these squares
DropTargets ==
    {[id |-> "none"], [id |-> "bank-drop"]}
        \cup {[id |-> "square", square |-> sq] : sq \in DropSquares}

\* The pieces on screen: those left in the bank and those on the board
Rendered(l) == remainingBank(l) \cup {l.boardState[sq] : sq \in Occupied(l.boardState)}

\* handleDragStart, for a piece on screen
HandleDragStart ==
    /\ learn.activeDrag = Null
    /\ \E piece \in Rendered(learn) :
          /\ piece.id[2] < MaxHand
          /\ learn' = [learn EXCEPT !.activeDrag = piece]
    /\ UNCHANGED <<games, stats, raw, username, normalized, api, inputs, fetch,
                   home, basis, limiter, session>>

\* handleDragEnd, over nothing, over a square or over the bank
HandleDragEnd ==
    /\ learn.activeDrag # Null
    /\ \E over \in DropTargets :
          learn' =
            IF over.id = "none" THEN [learn EXCEPT !.activeDrag = Null]
            ELSE IF over.id = "bank-drop"
            THEN [learn EXCEPT
                    !.activeDrag = Null,
                    !.boardState = dropOnBank(@, learn.activeDrag)]
            ELSE [learn EXCEPT
                    !.activeDrag = Null,
                    !.boardState = dropOnSquare(@, learn.activeDrag, over.square),
                    !.checked    = FALSE,
                    !.results    = IF learn.checked THEN NoResults ELSE @,
                    !.score      = IF learn.checked THEN Null ELSE @]
    /\ UNCHANGED <<games, stats, raw, username, normalized, api, inputs, fetch,
                   home, basis, limiter, session>>

\* checkAnswer; its button is disabled while the board is empty. The
\* buttons are pressed while no piece is being dragged.
CheckAnswer ==
    /\ learn.activeDrag = Null
    /\ Occupied(learn.boardState) # {}
    /\ learn' = [learn EXCEPT
                    !.results = checkedResults(learn.boardState),
                    !.checked = TRUE,
                    !.score   = checkedScore(learn.boardState)]
    /\ UNCHANGED <<games, stats, raw, username, normalized, api, inputs, fetch,
                   home, basis, limiter, session>>

\* showAnswer
ShowAnswer ==
    /\ learn.activeDrag = Null
    /\ learn' = [learn EXCEPT
                    !.boardState = answerBoard,
                    !.bankPieces = {},
                    !.results    = NoResults,
                    !.checked    = FALSE,
                    !.score      = Null]
    /\ UNCHANGED <<games, stats, raw, username, normalized, api, inputs, fetch,
                   home, basis, limiter, session>>

\* The Reset button
InitGame ==
    /\ learn.activeDrag = Null
    /\ learn' = [initGame EXCEPT !.activeDrag = learn.activeDrag]
    /\ UNCHANGED <<games, stats, raw, username, normalized, api, inputs, fetch,
                   home, basis, limiter, session>>

\* The game once the effect of the first render has run initGame
InitLearn ==
    /\ learn = initGame
    /\ NoStats
    /\ NoParser
    /\ NoHome
    /\ NoBasis
    /\ NoRoute
    /\ NoSession

LearnNext ==
    HandleDragStart \/ HandleDragEnd \/ CheckAnswer \/ ShowAnswer \/ InitGame

SpecLearn == InitLearn /\ [][LearnNext]_vars

\* The home page as first rendered
HomeInitial ==
    /\ games = <<>>
    /\ stats = Null
    /\ fetch = [phase |-> "idle", chessCom |-> NotRequested, lichess |-> NotRequested]
    /\ home = [loading |-> FALSE, error |-> "", gamesSet |-> FALSE,
               fetchCounts |-> Null,
               ratings |-> [chessCom |-> <<>>, lichess |-> <<>>],
               aiInsights |-> Null, insightsError |-> "",
               insightsRequested |-> FALSE]
    /\ NoParser
    /\ NoBasis
    /\ NoRoute
    /\ NoLearn
    /\ NoSession

MaxBatch == 3

\* Raw Chess.com records of a batch: the viewer wins as White, the viewer
\* is checkmated as Black, a record without its white player
ViewerWinsAsWhite ==
    [white    |-> [username |-> AlCap, result |-> "win", rating |-> 1500],
     black    |-> [username |-> Bo, result |-> "resigned", rating |-> 1480],
     end_time |-> 3000, pgn |-> SicilianPgn, eco |-> Undefined]
ViewerLosesAsBlack ==
    [white    |-> [username |-> Bo, result |-> "win", rating |-> 1480],
     black    |-> [username |-> AlCap, result |-> "checkmated", rating |-> 1500],
     end_time |-> 2000, pgn |-> Undefined, eco |-> ItalianEcoUrl]
MissingWhite ==
    [white    |-> Null,
     black    |-> [username |-> AlCap, result |-> "win", rating |-> 1500],
     end_time |-> 1000, pgn |-> Undefined, eco |-> Undefined]

BatchChessComGames == {ViewerWinsAsWhite, ViewerLosesAsBlack, MissingWhite}

Months == [ok : {TRUE}, games : SeqsUpTo(BatchChessComGames, MaxBatch)]
FailedMonth == [ok |-> FALSE, games |-> <<>>]

\* The monthly archives, oldest first: none, one month, a month before one
\* whose fetch fails, a month after an older one
ArchiveLists ==
    {<<>>}
        \cup {<<m>> : m \in Months}
        \cup {<<m, FailedMonth>> : m \in Months}
        \cup {<<[ok |-> TRUE, games |-> <<ViewerLosesAsBlack>>], m>> : m \in Months}

ChessComStats ==
    {[ok |-> FALSE, modes |-> <<<<>>, <<>>, <<>>, <<>>>>],
     [ok |-> TRUE, modes |-> <<<<>>, <<1500>>, <<>>, <<1400>>>>]}

ChessComSites ==
    [archivesStatus : {200}, stats : ChessComStats, archives : ArchiveLists]
        \cup [archivesStatus : {404, 429}, stats : {[ok |-> FALSE, modes |-> <<<<>>, <<>>, <<>>, <<>>>>]},
              archives : {<<>>}]

\* Decoded Lichess records of a batch: a draw with the viewer as White, a
\* win of the viewer as Black, a record without players
ViewerDrawsAsWhite ==
    [players   |-> [white |-> [user |-> [name |-> AlCap, id |-> Al]],
                    black |-> [user |-> [name |-> Bo, id |-> Bo]]],
     winner |-> Absent, status |-> "draw", opening |-> Null,
     createdAt |-> 2500000, moves |-> <<"e", "4", " ", "e", "5">>]
ViewerWinsAsBlack ==
    [players   |-> [white |-> [user |-> Null],
                    black |-> [user |-> [name |-> AlCap, id |-> Al]]],
     winner |-> "black", status |-> "mate",
     opening |-> [eco |-> <<"C", "5", "0">>, name |-> Italian, ply |-> 5],
     createdAt |-> 1500000, moves |-> Undefined]
MissingPlayers ==
    [players |-> Null, winner |-> Absent, status |-> "draw", opening |-> Null,
     createdAt |-> 500000, moves |-> Undefined]

BatchLichessLines ==
    {ViewerDrawsAsWhite, ViewerWinsAsBlack, MissingPlayers, EmptyLine, GarbageLine}

LichessProfiles ==
    {[ok |-> FALSE, perfs |-> <<>>],
     [ok |-> TRUE,
      perfs |-> <<[rating |-> <<1500>>, games |-> 0], [rating |-> <<1600>>, games |-> 12],
                  [rating |-> <<>>, games |-> 0], [rating |-> <<1700>>, games |-> 3]>>]}

LichessSites ==
    [gamesStatus : {200}, user : LichessProfiles,
     lines : SeqsUpTo(BatchLichessLines, MaxBatch)]
        \cup [gamesStatus : {404, 429}, user : {[ok |-> FALSE, perfs |-> <<>>]},
              lines : {<<>>}]

DefaultSites ==
    [chessCom |-> [archivesStatus |-> 200,
                   stats |-> [ok |-> TRUE, modes |-> <<<<>>, <<1500>>, <<>>, <<1400>>>>],
                   archives |-> <<[ok |-> TRUE, games |-> <<ViewerWinsAsWhite>>]>>],
     lichess  |-> [gamesStatus |-> 200, user |-> [ok |-> FALSE, perfs |-> <<>>],
                   lines |-> <<ViewerWinsAsBlack>>]]

\* Every batch of either platform for a page with both fields filled; one
\* batch for the pages with a blank field
InitRoutes ==
    /\ HomeInitial
    /\ \/ /\ inputs = [chessCom |-> Al, lichess |-> <<" ", "A", "L">>]
          /\ api \in [chessCom : ChessComSites, lichess : {DefaultSites.lichess}]
                       \cup [chessCom : {DefaultSites.chessCom}, lichess : LichessSites]
       \/ /\ inputs \in [chessCom : {<<>>, Al}, lichess : {<<" ">>, Al}]
          /\ api = DefaultSites

SpecRoutes == InitRoutes /\ [][HomeNext]_vars

(***************************************************************************)
(* The end-to-end scenario: 4 Chess.com games (3 wins as White, 1 loss as  *)
(* Black) and 2 Lichess games (1 without winner, 1 win as Black)           *)
(***************************************************************************)

\* The outcome strings of a lost game
LossOutcomes == {"checkmated", "resigned", "timeout"}

WinAsWhite(endTime, loserOutcome) ==
    [white    |-> [username |-> AlCap, result |-> "win", rating |-> 1500],
     black    |-> [username |-> Bo, result |-> loserOutcome, rating |-> 1480],
     end_time |-> endTime, pgn |-> SicilianPgn, eco |-> Undefined]

LossAsBlack(endTime, loserOutcome) ==
    [white    |-> [username |-> Bo, result |-> "win", rating |-> 1480],
     black    |-> [username |-> AlCap, result |-> loserOutcome, rating |-> 1500],
     end_time |-> endTime, pgn |-> Undefined, eco |-> ItalianEcoUrl]

\* The four games in the order played, the loss second or last, as one
\* month or as two
ScenarioArchives ==
    LET lists ==
            {<<WinAsWhite(1000, o), LossAsBlack(1100, o), WinAsWhite(2000, o),
               WinAsWhite(3000, o)>> : o \in LossOutcomes}
                \cup {<<WinAsWhite(1000, o), WinAsWhite(2000, o), WinAsWhite(3000, o),
                        LossAsBlack(3100, o)>> : o \in LossOutcomes}
    IN  {<<[ok |-> TRUE, games |-> l]>> : l \in lists}
            \cup {<<[ok |-> TRUE, games |-> SubSeq(l, 1, 2)],
                     [ok |-> TRUE, games |-> SubSeq(l, 3, 4)]>> : l \in lists}

\* The game without winner: any status, the viewer on either side
NoWinnerGame(status, viewerIsWhite) ==
    [players   |-> [white |-> [user |-> IF viewerIsWhite
                                        THEN [name |-> AlCap, id |-> Al]
                                        ELSE [name |-> Bo, id |-> Bo]],
                    black |-> [user |-> IF viewerIsWhite
                                        THEN [name |-> Bo, id |-> Bo]
                                        ELSE [name |-> AlCap, id |-> Al]]],
     winner |-> Absent, status |-> status, opening |-> Null,
     createdAt |-> 2500000, moves |-> <<"e", "4", " ", "e", "5">>]

ScenarioLines ==
    UNION {{<<NoWinnerGame(st, w), ViewerWinsAsBlack>>,
            <<ViewerWinsAsBlack, EmptyLine, NoWinnerGame(st, w)>>} :
              st \in {"draw", "stalemate", "aborted"}, w \in BOOLEAN}

InitEndToEnd ==
    /\ HomeInitial
    /\ inputs \in [chessCom : {Al, <<"A", "L", " ">>}, lichess : {Al, AlCap}]
    /\ api \in [chessCom : [archivesStatus : {200}, stats : ChessComStats,
                            archives : ScenarioArchives],
                lichess  : [gamesStatus : {200}, user : {[ok |-> FALSE, perfs |-> <<>>]},
                            lines : ScenarioLines]]

SpecEndToEnd == InitEndToEnd /\ [][HomeNext]_vars

(***************************************************************************)
(* Properties of the aggregator                                            *)
(***************************************************************************)

Called == stats # NotCalled

Range(s) == {s[i] : i \in DOMAIN s}

\* The opening table of the current input
Table == Range(buildOpeningMap(games))

\* The OpeningStats entries the returned GameStats carries
Reported ==
    Range(stats.mostPlayedOpenings)
        \cup (IF stats.bestOpening = Null THEN {} ELSE {stats.bestOpening})
        \cup (IF stats.worstOpening = Null THEN {} ELSE {stats.worstOpening})

Balanced(e) == e.wins + e.losses + e.draws = e.total

\* C1: for every list of games, the summary has wins + losses + draws =
\* totalGames, and every entry of the opening table, hence every entry of
\* mostPlayedOpenings, bestOpening and worstOpening, has
\* wins + losses + draws = total.
C1_CountsAddUp ==
    Called =>
        /\ stats.wins + stats.losses + stats.draws = stats.totalGames
        /\ \A e \in Table : Balanced(e)
        /\ \A e \in Reported : Balanced(e) /\ e \in Table

C1_Witness ==
    /\ Called
    /\ stats.wins > 0 /\ stats.losses > 0 /\ stats.draws > 0
    /\ Cardinality(Table) >= 2
    /\ \E e \in Reported : e.draws > 0

\* The four kinds of rate of a GameStats, each with its wins and its total
Rates ==
    {<<stats.overallWinRate, stats.wins, stats.totalGames>>,
     <<stats.winRateWhite, stats.whiteWins, stats.whiteGames>>,
     <<stats.winRateBlack, stats.blackWins, stats.blackGames>>}
        \cup {<<e.winRate, e.wins, e.total>> : e \in Table \cup Reported}

\* C2 as stated: every win rate is in [0, 100] and is 0 exactly when its
\* total is 0.
C2_ZeroExactlyWhenEmpty ==
    Called =>
        \A r \in Rates : r[1] \in 0..1000 /\ (r[1] = 0 <=> r[3] = 0)

\* C2, amended: every win rate is in [0, 100]; it is 0 whenever its wins
\* are 0 (so when its total is 0, and also for a non-empty total without a
\* win), and it is non-zero whenever wins > 0 and total < 2000 * wins.
C2_ZeroWhenNoWins ==
    Called =>
        \A r \in Rates :
            /\ r[1] \in 0..1000
            /\ r[2] = 0 => r[1] = 0
            /\ (r[2] > 0 /\ r[3] < 2000 * r[2]) => r[1] > 0

C2_Witness ==
    /\ Called
    /\ stats.totalGames > 0 /\ stats.wins = 0 /\ stats.overallWinRate = 0
    /\ stats.whiteGames = 0 /\ stats.winRateWhite = 0
    /\ stats.blackGames > 0 /\ stats.winRateBlack = 0

Qualified == {e \in Table : e.total >= MIN_GAMES_FOR_BEST_WORST}

\* C3: when some opening group has total >= 2, bestOpening is a group with
\* total >= 2 whose winRate is the maximum among the groups with total >= 2
\* and whose total is the largest among the groups with that winRate.
C3_BestOpening ==
    (Called /\ Qualified # {}) =>
        /\ stats.bestOpening \in Qualified
        /\ \A e \in Qualified : e.winRate <= stats.bestOpening.winRate
        /\ \A e \in Qualified :
              e.winRate = stats.bestOpening.winRate => e.total <= stats.bestOpening.total

\* A (3 games, 100%) and B (1 game, 100%, first in the input): the best is A
C3_Witness ==
    /\ Called
    /\ \E a \in Qualified, b \in Table :
          /\ a.total = 3 /\ a.winRate = 1000
          /\ b.total = 1 /\ b.winRate = 1000
          /\ games[1].opening = b.name
          /\ stats.bestOpening = a

\* C4: when some opening group has total >= 2, worstOpening is a group with
\* total >= 2 whose winRate is the minimum among the groups with total >= 2
\* and whose total is the largest among the groups with that winRate,
\* whatever the order of the input.
C4_WorstOpening ==
    (Called /\ Qualified # {}) =>
        /\ stats.worstOpening \in Qualified
        /\ \A e \in Qualified : e.winRate >= stats.worstOpening.winRate
        /\ \A e \in Qualified :
              e.winRate = stats.worstOpening.winRate => e.total <= stats.worstOpening.total

\* C (2 games, 0%) and D (3 games, 0%), D appearing first: the worst is D
C4_Witness ==
    /\ Called
    /\ \E c, d \in Qualified :
          /\ c.total = 2 /\ d.total = 3 /\ c.winRate = 0 /\ d.winRate = 0
          /\ stats.worstOpening = d
          /\ games[1].opening = d.name

\* C15: when at least one opening group exists but none has total >= 2,
\* bestOpening is a group with the highest winRate among all groups and
\* worstOpening a group with the lowest winRate among all groups; both are
\* present, and with a single group both are that group.
C15_Fallback ==
    (Called /\ Table # {} /\ Qualified = {}) =>
        /\ stats.bestOpening \in Table
        /\ \A e \in Table : e.winRate <= stats.bestOpening.winRate
        /\ stats.worstOpening \in Table
        /\ \A e \in Table : e.winRate >= stats.worstOpening.winRate
        /\ Cardinality(Table) = 1 => stats.bestOpening = stats.worstOpening

\* Three openings of one game each, a loss first, then a win, then a loss:
\* the best is the second and the worst differs from it
C15_Witness ==
    /\ Called
    /\ Len(games) = 3 /\ Cardinality(Table) = 3
    /\ games[1].result = "Loss" /\ games[2].result = "Win" /\ games[3].result = "Loss"
    /\ stats.bestOpening.name = games[2].opening
    /\ stats.worstOpening.winRate = 0

\* The opening names of the input, the number of games of a name and the
\* position of its first game
OpeningNames == {games[i].opening : i \in DOMAIN games}
GamesOf(name) == Cardinality({i \in DOMAIN games : games[i].opening = name})
FirstGameOf(name) ==
    CHOOSE i \in DOMAIN games :
        games[i].opening = name /\ \A j \in 1..(i - 1) : games[j].opening # name

\* Whether opening a comes before opening b in the list of all groups
\* sorted by total descending, equal totals in order of first appearance
PlayedBefore(a, b) ==
    \/ GamesOf(a) > GamesOf(b)
    \/ GamesOf(a) = GamesOf(b) /\ FirstGameOf(a) < FirstGameOf(b)

\* C16: mostPlayedOpenings has min(5, number of opening groups) entries,
\* the first entries of the list of all groups sorted by total descending
\* with equal totals in order of first appearance; no group outside it has
\* a strictly larger total than a group inside it.
C16_MostPlayed ==
    Called =>
        LET most   == stats.mostPlayedOpenings
            listed == {most[i].name : i \in DOMAIN most}
        IN  /\ Len(most) = (IF Cardinality(OpeningNames) < 5
                            THEN Cardinality(OpeningNames) ELSE 5)
            /\ \A i \in DOMAIN most :
                  most[i].name \in OpeningNames /\ most[i].total = GamesOf(most[i].name)
            /\ \A i, j \in DOMAIN most : i < j => PlayedBefore(most[i].name, most[j].name)
            /\ \A a \in listed, b \in OpeningNames \ listed :
                  PlayedBefore(a, b) /\ GamesOf(b) <= GamesOf(a)

\* Six groups, the first to appear played once and the others twice: the
\* list holds the five played twice, in order of appearance
C16_Witness ==
    /\ Called
    /\ Cardinality(OpeningNames) = 6
    /\ GamesOf(games[1].opening) = 1
    /\ \A n \in OpeningNames \ {games[1].opening} : GamesOf(n) = 2
    /\ Len(stats.mostPlayedOpenings) = 5
    /\ stats.mostPlayedOpenings[1].name = games[2].opening
    /\ \A i \in 1..5 : stats.mostPlayedOpenings[i].name # games[1].opening

\* Whether rate is wins * 1000 / total rounded to the nearest integer, a
\* half rounded up, and 0 for a total of 0
IsRate(rate, wins, total) ==
    IF total = 0 THEN rate = 0
    ELSE 2 * rate * total - total <= 2000 * wins /\ 2000 * wins < 2 * rate * total + total

\* The games of a color, of an opening group, and the wins among games
GamesOfColor(color) == {i \in DOMAIN games : games[i].color = color}
GamesOfGroup(name) ==
    {i \in DOMAIN games :
        (IF games[i].opening = <<>> THEN Unknown ELSE games[i].opening) = name}
WinsAmong(indices) == Cardinality({i \in indices : games[i].result = "Win"})

GroupKey(game) ==
    IF game.opening \in {Undefined, <<>>} THEN Unknown ELSE game.opening

\* C18: the opening table has exactly one entry per distinct opening string
\* of the input, a missing or empty opening counting as "Unknown"; strings
\* that differ in case or whitespace have entries of their own; each entry
\* counts the games of its key and the totals sum to the number of games.
C18_ExactGrouping ==
    Called =>
        LET table == buildOpeningMap(games)
            sum[i \in 0..Len(table)] ==
                IF i = 0 THEN 0 ELSE sum[i - 1] + table[i].total
        IN  /\ \A i, j \in DOMAIN table : table[i].name = table[j].name => i = j
            /\ {table[i].name : i \in DOMAIN table}
                  = {GroupKey(games[k]) : k \in DOMAIN games}
            /\ \A i \in DOMAIN table :
                  table[i].total
                    = Cardinality({k \in DOMAIN games : GroupKey(games[k]) = table[i].name})
            /\ sum[Len(table)] = Len(games)
            /\ Range(stats.mostPlayedOpenings) = Range(table)

\* "It", "it" and an empty opening: three entries, the third named "Unknown"
C18_Witness ==
    /\ Called
    /\ Len(games) = 3
    /\ games[1].opening = Italian /\ games[2].opening = <<"i", "t">>
    /\ games[3].opening = <<>>
    /\ Len(stats.mostPlayedOpenings) = 3
    /\ stats.mostPlayedOpenings[3].name = Unknown

\* The label the sign of a win-rate delta stands for
SignLabel(delta) ==
    IF delta > 0 THEN "Improving" ELSE IF delta < 0 THEN "Declining" ELSE "Stable"

\* C23: for a caller that holds an earlier win rate the GameStats carries
\* winRateTrend, the overall win rate less the earlier one, and the dashboard
\* labels it stable when zero, improving when positive and declining when
\* negative; for a caller that holds none the dashboard shows no trend.
C23_TrendSignal ==
    Called =>
        IF basis # <<>>
        THEN /\ "winRateTrend" \in DOMAIN stats
             /\ stats.winRateTrend = stats.overallWinRate - basis[1]
             /\ trendLabel(stats) = SignLabel(stats.winRateTrend)
        ELSE trendLabel(stats) = Absent

\* The latest request reached checkRateLimit
Checked == limiter.last # Null /\ limiter.last.checked

\* C24: checkRateLimit allows a call exactly when no call of the same
\* address was allowed before or the latest allowed one lies more than
\* RATE_LIMIT_WINDOW_MS back: two allowed calls of one address are more
\* than a window apart, and what other addresses did plays no part.
C24_OnePerWindow ==
    Checked =>
        (limiter.last.allowed <=>
            \/ limiter.last.before = <<>>
            \/ limiter.last.at - limiter.last.before[1].at > RATE_LIMIT_WINDOW_MS)

\* A second call of an address is allowed one millisecond after its window,
\* while another address holds a slot
C24_Witness ==
    /\ Checked
    /\ limiter.last.allowed
    /\ limiter.last.before # <<>>
    /\ limiter.last.at - limiter.last.before[1].at = RATE_LIMIT_WINDOW_MS + 1
    /\ \E ip \in Ips \ {limiter.last.ip} : limiter.store[ip] # Null

\* C25: a request that passed the rate limit and ended with 400 or 500 has
\* taken the slot: every request of the same address inside the window
\* that follows is answered 429.
C25_FailureKeepsSlot ==
    (/\ Checked
     /\ limiter.last.before # <<>>
     /\ limiter.last.before[1].status \in {400, 500}
     /\ limiter.last.at - limiter.last.before[1].at <= RATE_LIMIT_WINDOW_MS)
        => limiter.last.status = 429

\* A 429 at the very end of the window of a request that ended 400
C25_Witness ==
    /\ Checked
    /\ limiter.last.before # <<>>
    /\ limiter.last.before[1].status = 400
    /\ limiter.last.at - limiter.last.before[1].at = RATE_LIMIT_WINDOW_MS
    /\ limiter.last.status = 429

\* InsightsPanel shows the insights once insightsLoading is unset
InsightsShown == session.aiInsights # Null /\ ~session.insightsLoading

\* C26: insights on display were made from the games on display, and games
\* on display have had an insights request sent for them.
C26_InsightsMatchGames ==
    /\ InsightsShown =>
          /\ session.gamesSet
          /\ session.aiInsights.from = session.combinedGames
    /\ (session.gamesSet /\ session.combinedGames # <<>>) =>
          session.asked = <<session.combinedGames>>

\* C27: with no invocation in flight the page holds what the invocation
\* started last was answered, and loading is unset only then.
C27_LatestFetchWins ==
    /\ (session.flights = {} /\ session.latest # 0) =>
          IF session.latestOutcome.ok
          THEN /\ session.gamesSet
               /\ session.combinedGames =
                     session.latestOutcome.chessComGames
                        \o session.latestOutcome.lichessGames
               /\ session.fetchCounts =
                     [chessComCount |-> Len(session.latestOutcome.chessComGames),
                      lichessCount  |-> Len(session.latestOutcome.lichessGames)]
               /\ session.ratings =
                     [chessCom |-> session.latestOutcome.chessComRating,
                      lichess  |-> session.latestOutcome.lichessRating]
          ELSE /\ ~session.gamesSet
               /\ session.fetchCounts = Null
               /\ session.ratings = [chessCom |-> <<>>, lichess |-> <<>>]
    /\ ~session.loading => session.flights = {}

\* C28: no piece id is on two squares, and the pieces on the board and the
\* pieces left in the bank are 32 together, so that neither a piece that
\* another one displaced nor a piece dropped on the bank is lost.
C28_Conservation ==
    /\ \A sq1, sq2 \in Occupied(learn.boardState) :
          learn.boardState[sq1].id = learn.boardState[sq2].id => sq1 = sq2
    /\ Cardinality(Occupied(learn.boardState))
          + Cardinality(remainingBank(learn)) = 32

\* C29: while checked is set, results and score are those checkAnswer
\* computes from the board as it stands.
C29_NoStaleVerdict ==
    learn.checked =>
        /\ learn.results = checkedResults(learn.boardState)
        /\ learn.score = checkedScore(learn.boardState)

\* C30: bestOpening and worstOpening are both absent for the empty list and
\* only then; otherwise both are entries of the opening table and the best
\* has no lower win rate than the worst; with exactly one opening of
\* total >= 2 both are that opening.
C30_BestWorstTogether ==
    Called =>
        /\ (stats.bestOpening = Null) <=> (games = <<>>)
        /\ (stats.worstOpening = Null) <=> (games = <<>>)
        /\ games # <<>> =>
              /\ stats.bestOpening \in Table
              /\ stats.worstOpening \in Table
              /\ stats.bestOpening.winRate >= stats.worstOpening.winRate
        /\ Cardinality(Qualified) = 1 =>
              /\ stats.bestOpening \in Qualified
              /\ stats.worstOpening = stats.bestOpening

\* One opening played twice and lost, two played once and won: the one
\* played twice is both best and worst
C30_Witness ==
    /\ Called
    /\ Cardinality(Table) = 3
    /\ \E e \in Qualified :
          /\ Qualified = {e}
          /\ e.winRate = 0
          /\ \A o \in Table \ {e} : o.winRate = 1000
          /\ stats.bestOpening = e
          /\ stats.worstOpening = e

\* C14: for an empty collection, and for a null or absent one, computeStats
\* does not raise and returns totalGames 0, wins, losses and draws 0,
\* whiteGames and blackGames 0, the three win rates 0, avgGameLength 0, an
\* empty mostPlayedOpenings and bestOpening and worstOpening absent.
C14_ZeroGames ==
    (Called /\ games \in {<<>>, NullGames}) =>
        /\ stats # Raised
        /\ stats.totalGames = 0
        /\ stats.wins = 0 /\ stats.losses = 0 /\ stats.draws = 0
        /\ stats.whiteGames = 0 /\ stats.blackGames = 0
        /\ stats.overallWinRate = 0
        /\ stats.winRateWhite = 0 /\ stats.winRateBlack = 0
        /\ stats.avgGameLength = 0
        /\ stats.mostPlayedOpenings = <<>>
        /\ stats.bestOpening = Null /\ stats.worstOpening = Null

(***************************************************************************)
(* Properties of the Lichess parser                                        *)
(***************************************************************************)

Parsed == normalized # NotCalled /\ normalized # Raised

\* C8: a Lichess record with no declared winner normalizes to Draw, for
\* every status and every username, matching a player or not.
C8_NoWinnerIsDraw ==
    (Parsed /\ raw.winner = Absent) => normalized.result = "Draw"

\* An aborted game without winner, the username matching neither player
C8_Witness ==
    /\ Parsed
    /\ raw.winner = Absent /\ raw.status = "aborted"
    /\ raw.players.white.user # Null /\ raw.players.black.user # Null
    /\ raw.players.white.user.name = AlCap /\ raw.players.black.user.name = Bo
    /\ username = <<"z">>
    /\ normalized.result = "Draw"

\* Two letters that differ at most in case
SameLetter(c, d) ==
    \/ c = d
    \/ \E k \in DOMAIN UpperLetters :
          {c, d} = {UpperLetters[k], LowerLetters[k]}

EqualIgnoringCase(a, b) ==
    Len(a) = Len(b) /\ \A i \in DOMAIN a : SameLetter(a[i], b[i])

\* The identity of the white player: registered name, else account id,
\* else the empty string
WhiteIdentity ==
    LET u == raw.players.white.user
    IN  CASE u = Null -> <<>>
          [] u # Null /\ u.name # Undefined -> u.name
          [] u # Null /\ u.name = Undefined /\ u.id # Undefined -> u.id
          [] OTHER -> <<>>

ViewerSide == IF EqualIgnoringCase(WhiteIdentity, username) THEN "white" ELSE "black"

\* C9: with a declared winner, the result is Win exactly when the winner
\* side is the viewer's side and Loss otherwise; the viewer is White iff the
\* white player's identity equals username ignoring case, Black otherwise.
C9_WinnerAgainstViewerSide ==
    (Parsed /\ raw.winner \in {"white", "black"}) =>
        /\ normalized.color = (IF ViewerSide = "white" THEN "White" ELSE "Black")
        /\ normalized.result = (IF raw.winner = ViewerSide THEN "Win" ELSE "Loss")

\* White is known by account id only, spelled in another case than
\* username, and wins
C9_Witness ==
    /\ Parsed
    /\ raw.winner = "white"
    /\ raw.players.white.user # Null
    /\ raw.players.white.user.name = Undefined /\ raw.players.white.user.id = Al
    /\ username = AlUpper
    /\ normalized.color = "White" /\ normalized.result = "Win"

(***************************************************************************)
(* Properties of the Chess.com parser                                      *)
(***************************************************************************)

\* The outcome string of the side the parser resolved the viewer to
ViewerOutcome ==
    IF normalized.color = "White" THEN raw.white.result ELSE raw.black.result

\* C10: the viewer's outcome string "win" maps to Win; stalemate,
\* insufficient, agreed, repetition, 50move and timevsinsufficient map to
\* Draw; every other string, the empty one included, maps to Loss.
C10_OutcomeMapping ==
    Parsed =>
        normalized.result =
            CASE ViewerOutcome = "win" -> "Win"
              [] ViewerOutcome = "stalemate" -> "Draw"
              [] ViewerOutcome = "insufficient" -> "Draw"
              [] ViewerOutcome = "agreed" -> "Draw"
              [] ViewerOutcome = "repetition" -> "Draw"
              [] ViewerOutcome = "50move" -> "Draw"
              [] ViewerOutcome = "timevsinsufficient" -> "Draw"
              [] OTHER -> "Loss"

\* The viewer, playing Black, drew by the fifty-move rule
C10_Witness ==
    /\ Parsed
    /\ normalized.color = "Black"
    /\ raw.black.result = "50move" /\ raw.white.result = "50move"
    /\ normalized.result = "Draw"

\* Win, Draw or Loss as the outcome strings of the platform classify
OutcomeClass(outcome) ==
    IF outcome = "win" THEN "Win"
    ELSE IF outcome \in {"stalemate", "insufficient", "agreed", "repetition",
                         "50move", "timevsinsufficient"} THEN "Draw"
    ELSE "Loss"

\* C11: the viewer is White iff username equals the white player's username
\* ignoring case and Black otherwise, also when username matches neither
\* player; the result is derived from the outcome string of the side so
\* chosen, never from the other side.
C11_SideDetermination ==
    Parsed =>
        LET viewerIsWhite == EqualIgnoringCase(raw.white.username, username)
        IN  /\ normalized.color = (IF viewerIsWhite THEN "White" ELSE "Black")
            /\ normalized.result =
                  OutcomeClass(IF viewerIsWhite THEN raw.white.result
                               ELSE raw.black.result)

\* The username matches neither player: the viewer is Black and takes
\* Black's loss although White's outcome is the win
C11_Witness ==
    /\ Parsed
    /\ username = <<"z">>
    /\ raw.white.username = AlCap /\ raw.black.username = Bo
    /\ raw.white.result = "win" /\ raw.black.result = "resigned"
    /\ normalized.color = "Black" /\ normalized.result = "Loss"

(***************************************************************************)
(* Properties of both parsers on optional fields                           *)
(***************************************************************************)

\* C12: parsing never raises for absent, empty or malformed optional
\* fields. A Chess.com record whose eco is not a URL or has nothing after
\* /openings/, or whose eco is absent or empty while its pgn is absent, empty
\* or carries no usable tag, gets the opening "Unknown"; without a usable
\* pgn it gets 0 moves. A Lichess record without winner is a Draw, without
\* opening gets "Unknown", and without moves and opening gets 0 moves.
C12_NeverRaises ==
    normalized # NotCalled =>
        /\ normalized # Raised
        /\ IsChessComRecord(raw) =>
              /\ raw.eco \in {NotAUrl, NoOpeningsUrl, EmptySegmentUrl}
                    => normalized.opening = Unknown
              /\ (/\ raw.eco \in {Undefined, <<>>}
                  /\ raw.pgn \in {Undefined, <<>>, BrokenPgn, BarePgn, BadEcoUrlPgn})
                    => normalized.opening = Unknown
              /\ raw.pgn \in {Undefined, <<>>, BrokenPgn, BadEcoUrlPgn}
                    => normalized.moves = 0
        /\ IsLichessRecord(raw) =>
              /\ raw.winner = Absent => normalized.result = "Draw"
              /\ raw.opening = Null => normalized.opening = Unknown
              /\ (raw.moves \in {Undefined, <<>>} /\ raw.opening = Null)
                    => normalized.moves = 0

\* A Chess.com record whose eco is no URL and whose pgn is a cut-off header
C12_Witness ==
    /\ Parsed
    /\ IsChessComRecord(raw)
    /\ raw.eco = NotAUrl /\ raw.pgn = BrokenPgn
    /\ normalized.opening = Unknown /\ normalized.moves = 0

\* The opening the tags of a pgn stand for: the [Opening] tag wherever it
\* stands, else the [ECOUrl] tag, else the [ECO] code, else "Unknown"
OpeningOfPgn(pgn) ==
    CASE pgn \in {SicilianPgn, AllTagsPgn} -> Sicilian
      [] pgn = EcoUrlPgn -> <<"F", "r", " ", "D", " ", "3">>
      [] pgn = EcoPgn -> <<"B", "2", "0">>
      [] OTHER -> Unknown

\* C19: the opening of a Chess.com record with an eco field comes from that
\* URL alone, whatever its pgn holds and also when the URL yields
\* "Unknown"; without eco field it comes from the pgn, the [Opening] tag
\* before the [ECOUrl] tag before the [ECO] code; it is "Unknown" when
\* nothing matches or the URL cannot be parsed, and nothing is raised.
C19_OpeningPriority ==
    (normalized # NotCalled /\ IsChessComRecord(raw)) =>
        /\ normalized # Raised
        /\ raw.eco \notin {Undefined, <<>>}
              => normalized.opening = parseOpeningFromEcoUrl(raw.eco)
        /\ raw.eco \in {NotAUrl, NoOpeningsUrl, EmptySegmentUrl}
              => normalized.opening = Unknown
        /\ raw.eco \in {Undefined, <<>>}
              => normalized.opening = OpeningOfPgn(raw.pgn)

\* The eco field is no URL and the pgn names its opening: "Unknown"
C19_Witness ==
    /\ Parsed
    /\ IsChessComRecord(raw)
    /\ raw.eco = NotAUrl /\ raw.pgn = SicilianPgn
    /\ normalized.opening = Unknown

\* The segment after /openings/ of the URL handed in, and the segment with
\* every hyphen replaced by a space
Segment == SubSeq(raw, Len(EmptySegmentUrl) + 1, Len(raw))
Spaced(segment) == [i \in DOMAIN segment |-> IF segment[i] = "-" THEN " " ELSE segment[i]]

\* C20: for an ECO URL with a segment after /openings/, the opening is the
\* segment with every hyphen replaced by one space, trimmed: it holds no
\* hyphen and neither starts nor ends with whitespace.
C20_EcoUrlExtraction ==
    (normalized # NotCalled /\ trim(Spaced(Segment)) # <<>>) =>
        /\ normalized.opening = trim(Spaced(Segment))
        /\ "-" \notin Range(normalized.opening)
        /\ normalized.opening[1] \notin Whitespace
        /\ normalized.opening[Len(normalized.opening)] \notin Whitespace

\* The number of half-moves of a move list: its maximal runs of characters
\* that are no whitespace
Tokens(list) ==
    Cardinality({i \in DOMAIN list :
                    /\ list[i] \notin Whitespace
                    /\ (i = 1 \/ list[i - 1] \in Whitespace)})

\* C21: with a non-empty move list, moves is the number of its tokens over
\* two, rounded up, whatever the opening ply; else, with an opening ply,
\* moves is the ply over two, rounded up; else moves is 0.
C21_LichessMoves ==
    (Parsed /\ IsLichessRecord(raw)) =>
        normalized.moves =
            IF raw.moves # Undefined /\ raw.moves # <<>>
            THEN (Tokens(raw.moves) + 1) \div 2
            ELSE IF raw.opening # Null THEN (raw.opening.ply + 1) \div 2
            ELSE 0

\* The number a piece of move text carries as a marker "N.", 0 if it is none
MarkerOf(piece) ==
    IF piece = <<"1", ".", " ">> THEN 1
    ELSE IF piece = <<"1", "2", ".", " ">> THEN 12
    ELSE IF piece = <<"3", ".", ".", ".", " ">> THEN 3
    ELSE 0

MaxMarker(pieces) ==
    LET markers == {MarkerOf(pieces[i]) : i \in DOMAIN pieces} \cup {0}
    IN  CHOOSE n \in markers : \A m \in markers : n >= m

\* C22: the move count of a Chess.com game is the largest N over the markers
\* "N." of the PGN outside its bracketed text, wherever that marker stands and
\* whatever numbers the bracketed text holds; it is 0 without a PGN, with
\* nothing outside the brackets, and without a marker.
C22_PgnMoveCount ==
    (Parsed /\ IsChessComRecord(raw)) =>
        /\ raw.pgn = Undefined => normalized.moves = 0
        /\ \A header \in PgnHeaders, pieces \in PgnMoveTexts :
              raw.pgn = PgnOf(header, pieces) =>
                  normalized.moves = MaxMarker(pieces)

\* 12. e4 3... under both headers gives 12
C22_Witness ==
    /\ Parsed
    /\ raw.pgn = PgnOf(DateHeader \o RoundHeader,
                       <<(<<"1", "2", ".", " ">>), (<<"e", "4", " ">>),
                         (<<"3", ".", ".", ".", " ">>)>>)
    /\ normalized.moves = 12

\* C13: every NormalizedGame a parser returns is fully resolved: result is
\* Win, Loss or Draw, color is White or Black, opening is a string that is
\* neither missing nor empty, and moves is a non-negative integer.
C13_FullyResolved ==
    Parsed =>
        /\ normalized.result \in {"Win", "Loss", "Draw"}
        /\ normalized.color \in {"White", "Black"}
        /\ normalized.opening # Undefined
        /\ normalized.opening # <<>>
        /\ normalized.moves \in Nat

(***************************************************************************)
(* Properties of the routes and of the end-to-end scenario                 *)
(***************************************************************************)

\* handleFetch has published the combined games
Published == fetch.phase = "done" /\ home.gamesSet

\* The record without winner among the Lichess lines of the scenario
NoWinnerLine ==
    CHOOSE l \in Range(api.lichess.lines) : l # EmptyLine /\ l.winner = Absent

\* Whether the viewer played it as White
NoWinnerAsWhite ==
    EqualIgnoringCase(NoWinnerLine.players.white.user.name, trim(inputs.lichess))

\* C6 as stated: the scenario yields totalGames 6, wins 4, overallWinRate
\* 66.7, whiteGames 3 and blackGames 3.
C6_EndToEnd ==
    Published =>
        /\ stats.totalGames = 6
        /\ stats.wins = 4
        /\ stats.overallWinRate = 667
        /\ stats.whiteGames = 3
        /\ stats.blackGames = 3

\* C6, amended: the scenario yields totalGames 6, wins 4 and overallWinRate
\* 66.7; whiteGames is 3 and blackGames 3 when the viewer played the game
\* without winner as Black, and 4 and 2 when the viewer played it as White.
C6_EndToEndBySide ==
    Published =>
        /\ stats.totalGames = 6
        /\ stats.wins = 4
        /\ stats.overallWinRate = 667
        /\ stats.whiteGames = (IF NoWinnerAsWhite THEN 4 ELSE 3)
        /\ stats.blackGames = (IF NoWinnerAsWhite THEN 2 ELSE 3)

\* The game without winner was aborted and played as Black
C6_Witness ==
    /\ Published
    /\ ~NoWinnerAsWhite
    /\ NoWinnerLine.status = "aborted"
    /\ stats.totalGames = 6 /\ stats.whiteGames = 3 /\ stats.blackGames = 3
    /\ stats.draws = 1 /\ stats.losses = 1

\* The raw records the Chess.com route normalizes, and those of them whose
\* parser does not raise
ChessComBatch == Slice(collectRawGames(api.chessCom.archives), GAMES_LIMIT)
ChessComParsable ==
    SelectSeq(ChessComBatch,
              LAMBDA g : normalizeChessComGame(g, trim(inputs.chessCom)) # Raised)

\* The lines the Lichess route decodes and normalizes without raising
LichessParsable ==
    SelectSeq(api.lichess.lines,
              LAMBDA l : /\ l # EmptyLine
                         /\ l # GarbageLine
                         /\ normalizeLichessGame(l, trim(inputs.lichess)) # Raised)

Answered(response) == response # NotRequested /\ response # Pending

\* C7: a record that makes its parser or its line decoding raise does not
\* abort the batch: each route answers with the normalized games of all the
\* other records.
C7_MalformedRecordIsolated ==
    /\ (Answered(fetch.chessCom) /\ api.chessCom.archivesStatus = 200) =>
          /\ fetch.chessCom.status = 200
          /\ fetch.chessCom.games =
                [i \in DOMAIN ChessComParsable |->
                    normalizeChessComGame(ChessComParsable[i], trim(inputs.chessCom))]
    /\ (Answered(fetch.lichess) /\ api.lichess.gamesStatus = 200) =>
          /\ fetch.lichess.status = 200
          /\ fetch.lichess.games =
                [i \in DOMAIN LichessParsable |->
                    normalizeLichessGame(LichessParsable[i], trim(inputs.lichess))]

====
